---- MODULE Spec2Model ----
(***************************************************************************)
(* Verification model of four Terraform resources of the AWS provider:     *)
(*   aws_ssoadmin_application_grant                (ssoadmin)              *)
(*   aws_ssoadmin_application_authentication_method (ssoadmin)             *)
(*   aws_verifiedpermissions_identity_source       (verifiedpermissions)   *)
(*   aws_iot_software_package                      (iot)                   *)
(* Each resource is a set of CRUD handlers the plugin framework calls with *)
(* the prior state and/or the plan; a handler calls the remote API and     *)
(* answers with a new state and diagnostics.  A string is a sequence of    *)
(* chunks in which every separator character ("," and the double quote)    *)
(* is a chunk of its own, so joining, splitting and quoting are computed.  *)
(***************************************************************************)
EXTENDS Integers, Sequences, FiniteSets, TLC

VARIABLES
    rtype,      \* the resource type this behaviour manages
    remote,     \* the vendor's side: one collection per API
    state,      \* the local state of the managed resource, or Absent
    lastOp,     \* the last handler call: request, API calls made, response
    hist,       \* history: the ID and the state the last successful Create
                \* stored, and whether a Delete of that ID has succeeded since
    fn          \* a pure function under test: its input and its results

vars == <<rtype, remote, state, lastOp, hist, fn>>

(***************************************************************************)
(* Bounds of the model.                                                    *)
(***************************************************************************)
MaxUris == 2        \* longest redirect_uris / authorized_audiences list
MaxIssuers == 2     \* largest authorized_token_issuers set
MaxRules == 2       \* longest list of web ACL rules

(***************************************************************************)
(* Strings.                                                                *)
(***************************************************************************)
Comma == ","
Quote == "\""

RECURSIVE JoinParts(_, _)
\* strings.Join(parts, sep)
JoinParts(parts, sep) ==
    IF Len(parts) = 0 THEN <<>>
    ELSE IF Len(parts) = 1 THEN parts[1]
    ELSE parts[1] \o <<sep>> \o JoinParts(Tail(parts), sep)

RECURSIVE SplitAcc(_, _, _, _)
SplitAcc(s, sep, cur, acc) ==
    IF Len(s) = 0 THEN Append(acc, cur)
    ELSE IF Head(s) = sep THEN SplitAcc(Tail(s), sep, <<>>, Append(acc, cur))
    ELSE SplitAcc(Tail(s), sep, Append(cur, Head(s)), acc)

\* strings.Split(s, sep): always at least one part
SplitString(s, sep) == SplitAcc(s, sep, <<>>, <<>>)

HasEmptyPart(parts) == \E i \in 1..Len(parts) : parts[i] = <<>>

\* intflex.FlattenResourceId(idParts, partCount, allowEmptyPart)
FlattenResourceId(idParts, partCount, allowEmptyPart) ==
    IF Len(idParts) # partCount THEN [id |-> <<>>, err |-> TRUE]
    ELSE IF ~allowEmptyPart /\ HasEmptyPart(idParts) THEN [id |-> <<>>, err |-> TRUE]
    ELSE [id |-> JoinParts(idParts, Comma), err |-> FALSE]

\* intflex.ExpandResourceId(id, partCount, allowEmptyPart)
ExpandResourceId(id, partCount, allowEmptyPart) ==
    LET idParts == SplitString(id, Comma) IN
    IF Len(idParts) <= 1 THEN [parts |-> <<>>, err |-> TRUE]
    ELSE IF Len(idParts) # partCount THEN [parts |-> <<>>, err |-> TRUE]
    ELSE IF ~allowEmptyPart /\ HasEmptyPart(idParts) THEN [parts |-> <<>>, err |-> TRUE]
    ELSE [parts |-> idParts, err |-> FALSE]

applicationGrantIDPartCount == 2
applicationAuthenticationMethodIDPartCount == 2

(***************************************************************************)
(* Framework values (terraform-plugin-framework types) and Go values.      *)
(***************************************************************************)
StringNull == [null |-> TRUE, v |-> <<>>]
StringValue(s) == [null |-> FALSE, v |-> s]
ListNull == [null |-> TRUE, elems |-> <<>>]
ListValue(es) == [null |-> FALSE, elems |-> es]
SetNull == [null |-> TRUE, members |-> {}]
SetValue(ms) == [null |-> FALSE, members |-> ms]
EmptyObject == <<>>

\* types.String.ValueString(): the raw string, "" for null
ValueString(s) == IF s.null THEN <<>> ELSE s.v

\* types.String.String(): the human-readable form, fmt.Sprintf("%q", value)
StringString(s) == IF s.null THEN <<"<null>">> ELSE <<Quote>> \o s.v \o <<Quote>>

\* flex.StringValueToFramework: "" becomes null
StringValueToFramework(v) == IF v = <<>> THEN StringNull ELSE StringValue(v)

\* Go pointers and slices
Nil == [nil |-> TRUE]
Ptr(v) == [nil |-> FALSE, v |-> v]
NilSlice == [nil |-> TRUE, elems |-> <<>>]
Slice(es) == [nil |-> FALSE, elems |-> es]

\* flex.StringFromFramework: null becomes a nil *string
StringFromFramework(s) == IF s.null THEN Nil ELSE Ptr(s.v)

\* flex.StringToFramework: a nil *string becomes null
StringToFramework(p) == IF p.nil THEN StringNull ELSE StringValue(p.v)

\* types.List.ElementsAs(ctx, &slice, false): the elements, none for null
ElementsAs(l) == IF l.null THEN <<>> ELSE l.elems

\* flex.ExpandFrameworkStringValueList: null gives a nil slice
ExpandFrameworkStringValueList(l) ==
    IF l.null THEN NilSlice
    ELSE Slice([i \in 1..Len(l.elems) |-> ValueString(l.elems[i])])

\* flex.FlattenFrameworkStringValueList: a slice of length 0 gives null
FlattenFrameworkStringValueList(sl) ==
    IF Len(sl.elems) = 0 THEN ListNull
    ELSE ListValue([i \in 1..Len(sl.elems) |-> StringValue(sl.elems[i])])

Absent == [absent |-> TRUE]

\* some enumeration of a finite set, as ElementsAs gives for a types.Set
SetToSeq(S) == CHOOSE q \in [1..Cardinality(S) -> S] : {q[i] : i \in 1..Cardinality(S)} = S

SetElementsAs(s) == IF s.null THEN <<>> ELSE SetToSeq(s.members)

(***************************************************************************)
(* ssoadmin application grant: expand (configuration -> API union).        *)
(***************************************************************************)
GrantMember(member, value) == [nil |-> FALSE, member |-> member, Value |-> value]

expandApplicationCode(tfList) ==
    IF Len(tfList) = 0 THEN Nil
    ELSE Ptr([RedirectUris |-> ExpandFrameworkStringValueList(tfList[1].redirect_uris)])

expandAuthorizedTokenIssuers(tfList) ==
    IF Len(tfList) = 0 THEN NilSlice
    ELSE Slice([i \in 1..Len(tfList) |->
                 [AuthorizedAudiences |-> ExpandFrameworkStringValueList(tfList[i].authorized_audiences),
                  TrustedTokenIssuerArn |-> StringFromFramework(tfList[i].trusted_token_issuer_arn)]])

expandJwtBearer(tfList) ==
    IF Len(tfList) = 0 THEN Nil
    ELSE Ptr([AuthorizedTokenIssuers |->
                 expandAuthorizedTokenIssuers(SetElementsAs(tfList[1].authorized_token_issuers))])

\* The result is [val, panic]: dereferencing the nil that expandApplicationCode
\* or expandJwtBearer returns for a list without elements is a run-time panic.
expandGrant(tfList) ==
    IF Len(tfList) = 0 THEN [val |-> Nil, panic |-> FALSE]
    ELSE LET tfObj == tfList[1] IN
         IF ~tfObj.authorization_code.null THEN
             LET p == expandApplicationCode(ElementsAs(tfObj.authorization_code)) IN
             IF p.nil THEN [val |-> Nil, panic |-> TRUE]
             ELSE [val |-> GrantMember("GrantMemberAuthorizationCode", p.v), panic |-> FALSE]
         ELSE IF ~tfObj.jwt_bearer.null THEN
             LET p == expandJwtBearer(ElementsAs(tfObj.jwt_bearer)) IN
             IF p.nil THEN [val |-> Nil, panic |-> TRUE]
             ELSE [val |-> GrantMember("GrantMemberJwtBearer", p.v), panic |-> FALSE]
         ELSE IF ~tfObj.refresh_token.null THEN
             [val |-> GrantMember("GrantMemberRefreshToken", EmptyObject), panic |-> FALSE]
         ELSE IF ~tfObj.token_exchange.null THEN
             [val |-> GrantMember("GrantMemberTokenExchange", EmptyObject), panic |-> FALSE]
         ELSE [val |-> Nil, panic |-> FALSE]

(***************************************************************************)
(* ssoadmin application grant: flatten (API union -> state value).         *)
(***************************************************************************)
flattenAuthorizationCode(apiObject) ==
    IF apiObject.nil THEN ListNull
    ELSE ListValue(<<[redirect_uris |-> FlattenFrameworkStringValueList(apiObject.v.RedirectUris)]>>)

flattenJwtBearerAuthorizedTokenIssuers(apiObject) ==
    IF apiObject.nil THEN SetNull
    ELSE SetValue({[authorized_audiences |->
                       FlattenFrameworkStringValueList(apiObject.elems[i].AuthorizedAudiences),
                    trusted_token_issuer_arn |->
                       StringToFramework(apiObject.elems[i].TrustedTokenIssuerArn)]
                   : i \in 1..Len(apiObject.elems)})

flattenJwtBearer(apiObject) ==
    IF apiObject.nil THEN ListNull
    ELSE ListValue(<<[authorized_token_issuers |->
                        flattenJwtBearerAuthorizedTokenIssuers(apiObject.v.AuthorizedTokenIssuers)]>>)

GrantObjectNull ==
    [authorization_code |-> ListNull, jwt_bearer |-> ListNull,
     refresh_token |-> ListNull, token_exchange |-> ListNull]

\* The refresh_token and token_exchange cases assign a null list again.
flattenGrant(apiObject) ==
    IF apiObject.nil THEN ListNull
    ELSE LET obj ==
             IF apiObject.member = "GrantMemberAuthorizationCode" THEN
                 [GrantObjectNull EXCEPT !.authorization_code = flattenAuthorizationCode(Ptr(apiObject.Value))]
             ELSE IF apiObject.member = "GrantMemberJwtBearer" THEN
                 [GrantObjectNull EXCEPT !.jwt_bearer = flattenJwtBearer(Ptr(apiObject.Value))]
             ELSE IF apiObject.member = "GrantMemberRefreshToken" THEN
                 [GrantObjectNull EXCEPT !.refresh_token = ListNull]
             ELSE IF apiObject.member = "GrantMemberTokenExchange" THEN
                 [GrantObjectNull EXCEPT !.token_exchange = ListNull]
             ELSE GrantObjectNull
         IN ListValue(<<obj>>)

(***************************************************************************)
(* The `grant` blocks the schema accepts: at most one block, with exactly  *)
(* one of the four sub-blocks.  The framework hands an absent block to the *)
(* provider as a null list and a present one as a list of its elements.    *)
(***************************************************************************)
Uris == {<<"uri1">>, <<"uri2">>}
Audiences == {<<"aud">>}
IssuerArns == {<<"arn:tti">>}

SeqsUpTo(S, n) == UNION {[1..k -> S] : k \in 0..n}

StringLists(S) == {ListNull} \cup {ListValue([i \in 1..Len(q) |-> StringValue(q[i])]) : q \in SeqsUpTo(S, MaxUris)}

IssuerObjects ==
    [authorized_audiences : StringLists(Audiences),
     trusted_token_issuer_arn : {StringNull} \cup {StringValue(a) : a \in IssuerArns}]

IssuerSets ==
    {SetNull} \cup {SetValue(S) : S \in {T \in SUBSET IssuerObjects : Cardinality(T) \in 1..MaxIssuers}}

AuthorizationCodeBlock(uris) ==
    ListValue(<<[GrantObjectNull EXCEPT !.authorization_code = ListValue(<<[redirect_uris |-> uris]>>)]>>)

JwtBearerBlock(issuers) ==
    ListValue(<<[GrantObjectNull EXCEPT !.jwt_bearer = ListValue(<<[authorized_token_issuers |-> issuers]>>)]>>)

RefreshTokenBlock ==
    ListValue(<<[GrantObjectNull EXCEPT !.refresh_token = ListValue(<<EmptyObject>>)]>>)

TokenExchangeBlock ==
    ListValue(<<[GrantObjectNull EXCEPT !.token_exchange = ListValue(<<EmptyObject>>)]>>)

GrantBlocks ==
    {AuthorizationCodeBlock(u) : u \in StringLists(Uris)}
    \cup {JwtBearerBlock(s) : s \in IssuerSets}
    \cup {RefreshTokenBlock, TokenExchangeBlock}

(***************************************************************************)
(* Errors, and what the handlers see of them.                              *)
(***************************************************************************)
NoError == [kind |-> "nil"]
ResourceNotFoundException == [kind |-> "ResourceNotFoundException"]
OtherAPIError == [kind |-> "InternalServerException"]
NotFoundError(lastError) == [kind |-> "retry.NotFoundError", LastError |-> lastError]
EmptyResultError == [kind |-> "tfresource.EmptyResultError"]
IDFormatError == [kind |-> "ExpandResourceId"]

\* a handler that takes ResourceNotFound for any other error
IsResourceNotFoundNever(err) == FALSE

\* errs.IsA[*awstypes.ResourceNotFoundException] / tfawserr.ErrCodeEquals
IsResourceNotFound(err) == err.kind = "ResourceNotFoundException"

\* tfresource.NotFound: errors.As(err, **retry.NotFoundError), which an
\* EmptyResultError answers too
NotFound(err) == err.kind \in {"retry.NotFoundError", "tfresource.EmptyResultError"}

\* What may go wrong in one API call: nothing, a service error other than
\* ResourceNotFound, or (reads only) an answer with neither output nor error.
Faults == {"none", "error", "empty"}
WriteFaults == {"none", "error"}

ApiCall(name, in, res) == [call |-> name, in |-> in, out |-> res.out, err |-> res.err]

Without(f, k) == [x \in DOMAIN f \ {k} |-> f[x]]

(***************************************************************************)
(* ssoadmin API: application grants, keyed by (ApplicationArn, GrantType). *)
(***************************************************************************)
GrantKey(in) == <<in.ApplicationArn, in.GrantType>>

GetApplicationGrant(grants, in, fault) ==
    IF fault = "error" THEN [out |-> Nil, err |-> OtherAPIError]
    ELSE IF GrantKey(in) \notin DOMAIN grants THEN [out |-> Nil, err |-> ResourceNotFoundException]
    ELSE IF fault = "empty" THEN [out |-> Nil, err |-> NoError]
    ELSE [out |-> Ptr([Grant |-> grants[GrantKey(in)]]), err |-> NoError]

PutApplicationGrant(grants, in, fault) ==
    IF fault = "error" THEN [out |-> Nil, err |-> OtherAPIError, grants |-> grants]
    ELSE [out |-> Nil, err |-> NoError, grants |-> (GrantKey(in) :> in.Grant) @@ grants]

DeleteApplicationGrant(grants, in, fault) ==
    IF fault = "error" THEN [out |-> Nil, err |-> OtherAPIError, grants |-> grants]
    ELSE IF GrantKey(in) \notin DOMAIN grants
        THEN [out |-> Nil, err |-> ResourceNotFoundException, grants |-> grants]
    ELSE [out |-> Nil, err |-> NoError, grants |-> Without(grants, GrantKey(in))]

(***************************************************************************)
(* ssoadmin application grant: finder and handlers.  A handler's response  *)
(* is [state, grants, api, err, panic, find]: the state it leaves, the     *)
(* remote after its calls, the calls, whether the diagnostics hold an      *)
(* error, whether it crashed, and what its finder returned.                *)
(***************************************************************************)
NoFind == [out |-> Nil, err |-> NoError, api |-> <<>>]

\* a finder that splits the ID into (type, ARN)
findApplicationGrantByIDSwapped(grants, id, fault) ==
    LET p == ExpandResourceId(id, applicationGrantIDPartCount, FALSE) IN
    IF p.err THEN [out |-> Nil, err |-> IDFormatError, api |-> <<>>]
    ELSE LET in == [ApplicationArn |-> p.parts[2], GrantType |-> p.parts[1]]
             r == GetApplicationGrant(grants, in, fault)
             api == <<ApiCall("GetApplicationGrant", in, r)>>
         IN IF r.err # NoError THEN
                IF IsResourceNotFound(r.err)
                    THEN [out |-> Nil, err |-> NotFoundError(r.err), api |-> api]
                    ELSE [out |-> Nil, err |-> r.err, api |-> api]
            ELSE IF r.out.nil THEN [out |-> Nil, err |-> EmptyResultError, api |-> api]
            ELSE [out |-> r.out, err |-> NoError, api |-> api]

findApplicationGrantByID(grants, id, fault) ==
    LET p == ExpandResourceId(id, applicationGrantIDPartCount, FALSE) IN
    IF p.err THEN [out |-> Nil, err |-> IDFormatError, api |-> <<>>]
    ELSE LET in == [ApplicationArn |-> p.parts[1], GrantType |-> p.parts[2]]
             r == GetApplicationGrant(grants, in, fault)
             api == <<ApiCall("GetApplicationGrant", in, r)>>
         IN IF r.err # NoError THEN
                IF IsResourceNotFound(r.err)
                    THEN [out |-> Nil, err |-> NotFoundError(r.err), api |-> api]
                    ELSE [out |-> Nil, err |-> r.err, api |-> api]
            ELSE IF r.out.nil THEN [out |-> Nil, err |-> EmptyResultError, api |-> api]
            ELSE [out |-> r.out, err |-> NoError, api |-> api]

\* a Create that sets the state before it looks at the error of the call
GrantCreateRespSetsStateFirst(grants, plan, fault) ==
    LET applicationARN == ValueString(plan.application_arn)
        grantType == ValueString(plan.grant_type)
        id == FlattenResourceId(<<applicationARN, grantType>>, applicationGrantIDPartCount, FALSE).id
        g == expandGrant(ElementsAs(plan.grant))
        in == [ApplicationArn |-> applicationARN, GrantType |-> grantType, Grant |-> g.val]
        r == PutApplicationGrant(grants, in, fault)
    IN IF g.panic THEN
           [state |-> Absent, grants |-> grants, api |-> <<>>, err |-> FALSE, panic |-> TRUE, find |-> NoFind]
       ELSE
           [state |-> [application_arn |-> plan.application_arn, id |-> StringValue(id),
                       grant |-> plan.grant, grant_type |-> plan.grant_type],
            grants |-> r.grants, api |-> <<ApiCall("PutApplicationGrant", in, r)>>,
            err |-> r.err # NoError, panic |-> FALSE, find |-> NoFind]

\* plan: application_arn, grant_type, grant (id is unknown until Create sets it)
GrantCreateResp(grants, plan, fault) ==
    LET applicationARN == ValueString(plan.application_arn)
        grantType == ValueString(plan.grant_type)
        id == FlattenResourceId(<<applicationARN, grantType>>, applicationGrantIDPartCount, FALSE).id
        g == expandGrant(ElementsAs(plan.grant))
        in == [ApplicationArn |-> applicationARN, GrantType |-> grantType, Grant |-> g.val]
        r == PutApplicationGrant(grants, in, fault)
    IN IF g.panic THEN
           [state |-> Absent, grants |-> grants, api |-> <<>>, err |-> FALSE, panic |-> TRUE, find |-> NoFind]
       ELSE IF r.err # NoError THEN
           [state |-> Absent, grants |-> grants, api |-> <<ApiCall("PutApplicationGrant", in, r)>>,
            err |-> TRUE, panic |-> FALSE, find |-> NoFind]
       ELSE
           [state |-> [application_arn |-> plan.application_arn, id |-> StringValue(id),
                       grant |-> plan.grant, grant_type |-> plan.grant_type],
            grants |-> r.grants, api |-> <<ApiCall("PutApplicationGrant", in, r)>>,
            err |-> FALSE, panic |-> FALSE, find |-> NoFind]

\* The ID is split a second time, from state.ID.String(), the quoted form.
GrantReadResp(grants, st, fault) ==
    LET f == findApplicationGrantByID(grants, ValueString(st.id), fault) IN
    IF NotFound(f.err) THEN
        [state |-> Absent, grants |-> grants, api |-> f.api, err |-> FALSE, panic |-> FALSE, find |-> f]
    ELSE IF f.err # NoError THEN
        [state |-> st, grants |-> grants, api |-> f.api, err |-> TRUE, panic |-> FALSE, find |-> f]
    ELSE LET id == ExpandResourceId(StringString(st.id), applicationGrantIDPartCount, FALSE) IN
         IF id.err THEN
             [state |-> st, grants |-> grants, api |-> f.api, err |-> FALSE, panic |-> TRUE, find |-> f]
         ELSE
             [state |-> [application_arn |-> StringValueToFramework(id.parts[1]),
                         id |-> st.id,
                         grant |-> flattenGrant(f.out.v.Grant),
                         grant_type |-> StringValueToFramework(id.parts[2])],
              grants |-> grants, api |-> f.api, err |-> FALSE, panic |-> FALSE, find |-> f]

\* an Update that writes the plan to state
GrantUpdateRespWritesPlan(grants, st, plan) ==
    [state |-> plan, grants |-> grants, api |-> <<>>, err |-> FALSE, panic |-> FALSE, find |-> NoFind]

\* The body of Update is empty; the framework hands it the prior state as the
\* response state.
GrantUpdateResp(grants, st, plan) ==
    [state |-> st, grants |-> grants, api |-> <<>>, err |-> FALSE, panic |-> FALSE, find |-> NoFind]

\* a Delete that reports every error of the call
GrantDeleteRespStrict(grants, st, fault) ==
    LET in == [ApplicationArn |-> ValueString(st.application_arn),
               GrantType |-> ValueString(st.grant_type)]
        r == DeleteApplicationGrant(grants, in, fault)
        api == <<ApiCall("DeleteApplicationGrant", in, r)>>
    IN IF r.err # NoError THEN
           [state |-> st, grants |-> grants, api |-> api, err |-> TRUE, panic |-> FALSE, find |-> NoFind]
       ELSE
           [state |-> Absent, grants |-> r.grants, api |-> api, err |-> FALSE, panic |-> FALSE, find |-> NoFind]

\* Without an error diagnostic the framework removes the resource from state.
GrantDeleteResp(grants, st, fault) ==
    LET in == [ApplicationArn |-> ValueString(st.application_arn),
               GrantType |-> ValueString(st.grant_type)]
        r == DeleteApplicationGrant(grants, in, fault)
        api == <<ApiCall("DeleteApplicationGrant", in, r)>>
    IN IF r.err # NoError /\ ~IsResourceNotFound(r.err) THEN
           [state |-> st, grants |-> grants, api |-> api, err |-> TRUE, panic |-> FALSE, find |-> NoFind]
       ELSE
           [state |-> Absent, grants |-> r.grants, api |-> api, err |-> FALSE, panic |-> FALSE, find |-> NoFind]

\* resource.ImportStatePassthroughID: the state holds the ID alone
GrantImportState(id) ==
    [application_arn |-> StringNull, id |-> StringValue(id), grant |-> ListNull, grant_type |-> StringNull]

(***************************************************************************)
(* ssoadmin application authentication method.                             *)
(***************************************************************************)
\* json.SmithyDocumentFromString fails on text that is not JSON.
JSONDocuments == {<<"{}">>}

SmithyDocumentFromString(s) ==
    IF s \in JSONDocuments THEN [doc |-> Ptr(s), err |-> FALSE] ELSE [doc |-> Nil, err |-> TRUE]

\* iam.Expand: [val, diags]; a document error returns nil and no diagnostic
iamExpand(m) ==
    IF m.actor_policy.null THEN [val |-> Nil, diags |-> FALSE]
    ELSE LET d == SmithyDocumentFromString(ValueString(m.actor_policy)) IN
         IF d.err THEN [val |-> Nil, diags |-> FALSE]
         ELSE [val |-> Ptr([ActorPolicy |-> d.doc]), diags |-> FALSE]

\* What flex.Expand does with an Expander whose Expand returns nil and no
\* diagnostic. The flex package decides it: it leaves the target at its zero
\* value, or it reports the nil as an error diagnostic.
NilExpansions == {"zero", "diagnostic"}

\* flex.Expand of the iam list into result.Value: the element's Expand
iamListExpand(l, onNil) ==
    IF Len(ElementsAs(l)) = 0 THEN [val |-> [ActorPolicy |-> Nil], diags |-> FALSE]
    ELSE LET e == iamExpand(l.elems[1]) IN
         IF e.val.nil
         THEN [val |-> [ActorPolicy |-> Nil], diags |-> e.diags \/ onNil = "diagnostic"]
         ELSE [val |-> e.val.v, diags |-> e.diags]

\* authenticationMethod.Expand without the return on diags.HasError()
authenticationMethodExpandKeepsResult(m, onNil) ==
    IF ~m.iam.null THEN
        LET e == iamListExpand(m.iam, onNil) IN
        [val |-> [nil |-> FALSE, member |-> "AuthenticationMethodMemberIam", Value |-> e.val],
         diags |-> e.diags]
    ELSE [val |-> Nil, diags |-> FALSE]

\* authenticationMethod.Expand: [val, diags]
authenticationMethodExpand(m, onNil) ==
    IF ~m.iam.null THEN
        LET e == iamListExpand(m.iam, onNil) IN
        IF e.diags THEN [val |-> Nil, diags |-> TRUE]
        ELSE [val |-> [nil |-> FALSE, member |-> "AuthenticationMethodMemberIam", Value |-> e.val],
              diags |-> FALSE]
    ELSE [val |-> Nil, diags |-> FALSE]

MethodKey(in) == <<in.ApplicationArn, in.AuthenticationMethodType>>

GetApplicationAuthenticationMethod(methods, in, fault) ==
    IF fault = "error" THEN [out |-> Nil, err |-> OtherAPIError]
    ELSE IF MethodKey(in) \notin DOMAIN methods THEN [out |-> Nil, err |-> ResourceNotFoundException]
    ELSE IF fault = "empty" THEN [out |-> Nil, err |-> NoError]
    ELSE [out |-> Ptr([AuthenticationMethod |-> methods[MethodKey(in)]]), err |-> NoError]

PutApplicationAuthenticationMethod(methods, in, fault) ==
    IF fault = "error" THEN [out |-> Nil, err |-> OtherAPIError, methods |-> methods]
    ELSE [out |-> Nil, err |-> NoError, methods |-> (MethodKey(in) :> in.AuthenticationMethod) @@ methods]

DeleteApplicationAuthenticationMethod(methods, in, fault) ==
    IF fault = "error" THEN [out |-> Nil, err |-> OtherAPIError, methods |-> methods]
    ELSE IF MethodKey(in) \notin DOMAIN methods
        THEN [out |-> Nil, err |-> ResourceNotFoundException, methods |-> methods]
    ELSE [out |-> Nil, err |-> NoError, methods |-> Without(methods, MethodKey(in))]

findApplicationAuthenticationMethodByMethodTypeAndApplicationARN(methods, id, fault) ==
    LET p == ExpandResourceId(id, applicationAuthenticationMethodIDPartCount, FALSE) IN
    IF p.err THEN [out |-> Nil, err |-> IDFormatError, api |-> <<>>]
    ELSE LET in == [ApplicationArn |-> p.parts[1], AuthenticationMethodType |-> p.parts[2]]
             r == GetApplicationAuthenticationMethod(methods, in, fault)
             api == <<ApiCall("GetApplicationAuthenticationMethod", in, r)>>
         IN IF IsResourceNotFound(r.err) THEN [out |-> Nil, err |-> NotFoundError(r.err), api |-> api]
            ELSE IF r.err # NoError THEN [out |-> Nil, err |-> r.err, api |-> api]
            ELSE IF r.out.nil THEN [out |-> Nil, err |-> EmptyResultError, api |-> api]
            ELSE [out |-> Ptr(r.out.v.AuthenticationMethod), err |-> NoError, api |-> api]

\* flex.Expand(plan, input): fields by name, authentication_method by Expand
MethodCreateResp(methods, plan, fault, onNil) ==
    LET tfList == ElementsAs(plan.authentication_method)
        x == IF Len(tfList) = 0 THEN [val |-> Nil, diags |-> FALSE]
             ELSE authenticationMethodExpand(tfList[1], onNil)
        e == [x EXCEPT !.diags = @ \/ (Len(tfList) > 0 /\ x.val = Nil /\ onNil = "diagnostic")]
        in == [ApplicationArn |-> ValueString(plan.application_arn),
               AuthenticationMethodType |-> ValueString(plan.authentication_method_type),
               AuthenticationMethod |-> e.val]
        r == PutApplicationAuthenticationMethod(methods, in, fault)
        api == <<ApiCall("PutApplicationAuthenticationMethod", in, r)>>
        id == FlattenResourceId(<<ValueString(plan.application_arn),
                                  ValueString(plan.authentication_method_type)>>,
                                applicationAuthenticationMethodIDPartCount, FALSE)
    IN IF e.diags THEN
           [state |-> Absent, methods |-> methods, api |-> <<>>, err |-> TRUE, panic |-> FALSE, find |-> NoFind]
       ELSE IF r.err # NoError THEN
           [state |-> Absent, methods |-> methods, api |-> api, err |-> TRUE, panic |-> FALSE, find |-> NoFind]
       ELSE IF id.err THEN
           [state |-> Absent, methods |-> r.methods, api |-> api, err |-> TRUE, panic |-> FALSE, find |-> NoFind]
       ELSE
           [state |-> [application_arn |-> plan.application_arn,
                       authentication_method |-> plan.authentication_method,
                       authentication_method_type |-> plan.authentication_method_type,
                       id |-> StringValue(id.id)],
            methods |-> r.methods, api |-> api, err |-> FALSE, panic |-> FALSE, find |-> NoFind]

\* flex.Flatten(output, &state) has no Flattener to call (it is commented
\* out); flattenFails is whether the reflection over the union reports an
\* error, and no field of the state is assigned either way.
MethodReadResp(methods, st, fault, flattenFails) ==
    LET f == findApplicationAuthenticationMethodByMethodTypeAndApplicationARN(
                 methods, ValueString(st.id), fault) IN
    IF NotFound(f.err) THEN
        [state |-> Absent, methods |-> methods, api |-> f.api, err |-> FALSE, panic |-> FALSE, find |-> f]
    ELSE IF f.err # NoError THEN
        [state |-> st, methods |-> methods, api |-> f.api, err |-> TRUE, panic |-> FALSE, find |-> f]
    ELSE IF flattenFails THEN
        [state |-> st, methods |-> methods, api |-> f.api, err |-> TRUE, panic |-> FALSE, find |-> f]
    ELSE
        [state |-> st, methods |-> methods, api |-> f.api, err |-> FALSE, panic |-> FALSE, find |-> f]

MethodUpdateResp(methods, st, plan) ==
    [state |-> st, methods |-> methods, api |-> <<>>, err |-> FALSE, panic |-> FALSE, find |-> NoFind]

MethodDeleteResp(methods, st, fault) ==
    LET p == ExpandResourceId(ValueString(st.id), applicationAuthenticationMethodIDPartCount, FALSE) IN
    IF p.err THEN
        [state |-> st, methods |-> methods, api |-> <<>>, err |-> TRUE, panic |-> FALSE, find |-> NoFind]
    ELSE LET in == [ApplicationArn |-> p.parts[1], AuthenticationMethodType |-> p.parts[2]]
             r == DeleteApplicationAuthenticationMethod(methods, in, fault)
             api == <<ApiCall("DeleteApplicationAuthenticationMethod", in, r)>>
         IN IF r.err # NoError /\ ~IsResourceNotFound(r.err) THEN
                [state |-> st, methods |-> methods, api |-> api, err |-> TRUE, panic |-> FALSE, find |-> NoFind]
            ELSE
                [state |-> Absent, methods |-> r.methods, api |-> api, err |-> FALSE, panic |-> FALSE,
                 find |-> NoFind]

MethodImportState(id) ==
    [application_arn |-> StringNull, authentication_method |-> ListNull,
     authentication_method_type |-> StringNull, id |-> StringValue(id)]

(***************************************************************************)
(* verifiedpermissions identity source: expand and flatten.                *)
(***************************************************************************)
\* types.String.ValueStringPointer(): nil for null
ValueStringPointer(s) == IF s.null THEN Nil ELSE Ptr(s.v)

expandGroupConfiguration(tfList) ==
    IF Len(tfList) = 0 THEN Nil
    ELSE Ptr([GroupEntityType |-> ValueStringPointer(tfList[1].group_entity_type)])

expandCognitoUserPoolConfiguration(tfList) ==
    IF Len(tfList) = 0 THEN Nil
    ELSE Ptr([UserPoolArn |-> ValueStringPointer(tfList[1].user_pool_arn),
              ClientIds |-> ExpandFrameworkStringValueList(tfList[1].client_ids),
              GroupConfiguration |-> expandGroupConfiguration(ElementsAs(tfList[1].group_configuration))])

\* [val, panic]: the nil of a block without cognito_user_pool_configuration
\* is dereferenced
expandIdentitySourceConfiguration(tfList) ==
    IF Len(tfList) = 0 THEN [val |-> Nil, panic |-> FALSE]
    ELSE LET p == expandCognitoUserPoolConfiguration(ElementsAs(tfList[1].cognito_user_pool_configuration)) IN
         IF p.nil THEN [val |-> Nil, panic |-> TRUE]
         ELSE [val |-> [nil |-> FALSE, member |-> "ConfigurationMemberCognitoUserPoolConfiguration",
                        Value |-> p.v],
               panic |-> FALSE]

expandGroupUpdateConfiguration(tfList) ==
    IF Len(tfList) = 0 THEN Nil
    ELSE Ptr([GroupEntityType |-> ValueStringPointer(tfList[1].group_entity_type)])

expandCognitoUserPoolUpdateConfiguration(tfList) ==
    IF Len(tfList) = 0 THEN Nil
    ELSE Ptr([UserPoolArn |-> ValueStringPointer(tfList[1].user_pool_arn),
              ClientIds |-> ExpandFrameworkStringValueList(tfList[1].client_ids),
              GroupConfiguration |-> expandGroupUpdateConfiguration(ElementsAs(tfList[1].group_configuration))])

expandIdentitySourceUpdateConfiguration(tfList) ==
    IF Len(tfList) = 0 THEN [val |-> Nil, panic |-> FALSE]
    ELSE LET p == expandCognitoUserPoolUpdateConfiguration(
                      ElementsAs(tfList[1].cognito_user_pool_configuration)) IN
         IF p.nil THEN [val |-> Nil, panic |-> TRUE]
         ELSE [val |-> [nil |-> FALSE, member |-> "UpdateConfigurationMemberCognitoUserPoolConfiguration",
                        Value |-> p.v],
               panic |-> FALSE]

\* Attribute types, by name.
GroupConfigurationAttrTypes == [group_entity_type |-> "string"]
ConfigurationDetailAttrTypes ==
    [client_ids |-> "list(list(string))", user_pool_arn |-> "string", group_configuration |-> "list(object)"]
ConfigurationAttrTypes == [cognito_user_pool_configuration |-> "list(object)"]

Unknown == [unknown |-> TRUE]

\* types.ObjectValue(attrTypes, attrs): attrs maps each name to [type, val];
\* a missing, extra or differently typed attribute is an error diagnostic
\* and the object is unknown.  The result is [val, diags].
ObjectValue(attrTypes, attrs) ==
    IF DOMAIN attrs = DOMAIN attrTypes /\ \A k \in DOMAIN attrs : attrs[k].type = attrTypes[k]
        THEN [val |-> [k \in DOMAIN attrs |-> attrs[k].val], diags |-> FALSE]
        ELSE [val |-> Unknown, diags |-> TRUE]

Typed(type, val) == [type |-> type, val |-> val]

\* The diagnostics of ObjectValue and ListValue are dropped here.
flattenGroupConfiguration(apiObject) ==
    IF apiObject.nil THEN ListNull
    ELSE ListValue(<<ObjectValue(GroupConfigurationAttrTypes,
                        [group_entity_type |->
                            Typed("string", StringToFramework(apiObject.v.GroupEntityType))]).val>>)

flattenCognitoUserPoolConfiguration(apiObject) ==
    IF apiObject.nil THEN [val |-> ListNull, diags |-> FALSE]
    ELSE LET o == ObjectValue(ConfigurationDetailAttrTypes,
                     [client_ids |-> Typed("list(string)",
                                           FlattenFrameworkStringValueList(apiObject.v.ClientIds)),
                      user_pool_arn |-> Typed("string", StringToFramework(apiObject.v.UserPoolArn)),
                      group_configuration |-> Typed("list(object)",
                                           flattenGroupConfiguration(apiObject.v.GroupConfiguration))])
         IN [val |-> ListValue(<<o.val>>), diags |-> o.diags]

flattenIdentitySourceConfiguration(apiObject) ==
    IF apiObject.nil THEN [val |-> ListNull, diags |-> FALSE]
    ELSE LET c == IF apiObject.member = "ConfigurationDetailMemberCognitoUserPoolConfiguration"
                  THEN flattenCognitoUserPoolConfiguration(Ptr(apiObject.Value))
                  ELSE [val |-> ListNull, diags |-> FALSE]
             attrs == IF apiObject.member = "ConfigurationDetailMemberCognitoUserPoolConfiguration"
                      THEN [cognito_user_pool_configuration |-> Typed("list(object)", c.val)]
                      ELSE <<>>
             o == ObjectValue(ConfigurationAttrTypes, attrs)
         IN [val |-> ListValue(<<o.val>>), diags |-> c.diags \/ o.diags]

(***************************************************************************)
(* verifiedpermissions API: identity sources, keyed by IdentitySourceId.   *)
(* The service keeps what it is given and reports a configuration as the   *)
(* ConfigurationDetail with the same fields.                               *)
(***************************************************************************)
ConfigurationDetailOf(c) ==
    IF c.nil THEN Nil
    ELSE [nil |-> FALSE, member |-> "ConfigurationDetailMemberCognitoUserPoolConfiguration",
          Value |-> c.Value]

IdentitySourceIds == {<<"is-1">>, <<"is-2">>}

\* fault "noid": an output without IdentitySourceId
GetIdentitySource(sources, in, fault) ==
    IF fault = "error" THEN [out |-> Nil, err |-> OtherAPIError]
    ELSE IF in.IdentitySourceId.nil \/ in.IdentitySourceId.v \notin DOMAIN sources
        THEN [out |-> Nil, err |-> ResourceNotFoundException]
    ELSE IF fault = "empty" THEN [out |-> Nil, err |-> NoError]
    ELSE LET src == sources[in.IdentitySourceId.v] IN
         [out |-> Ptr([IdentitySourceId |-> IF fault = "noid" THEN Nil ELSE in.IdentitySourceId,
                       PolicyStoreId |-> src.PolicyStoreId,
                       PrincipalEntityType |-> src.PrincipalEntityType,
                       Configuration |-> ConfigurationDetailOf(src.Configuration)]),
          err |-> NoError]

\* newId: the identifier the service gives the new identity source
CreateIdentitySource(sources, in, newId, fault) ==
    IF fault = "error" \/ newId \in DOMAIN sources
        THEN [out |-> Nil, err |-> OtherAPIError, sources |-> sources]
    ELSE [out |-> Ptr([IdentitySourceId |-> Ptr(newId), PolicyStoreId |-> in.PolicyStoreId]),
          err |-> NoError,
          sources |-> (newId :> [PolicyStoreId |-> in.PolicyStoreId,
                                 PrincipalEntityType |-> in.PrincipalEntityType,
                                 Configuration |-> in.Configuration]) @@ sources]

\* a request that names no identity source is refused
UpdateIdentitySource(sources, in, fault) ==
    IF fault = "error" \/ in.IdentitySourceId.nil
        THEN [out |-> Nil, err |-> OtherAPIError, sources |-> sources]
    ELSE IF in.IdentitySourceId.v \notin DOMAIN sources
        THEN [out |-> Nil, err |-> ResourceNotFoundException, sources |-> sources]
    ELSE [out |-> Nil, err |-> NoError,
          sources |-> [sources EXCEPT ![in.IdentitySourceId.v] =
                          [PolicyStoreId |-> in.PolicyStoreId,
                           PrincipalEntityType |-> in.PrincipalEntityType,
                           Configuration |-> in.UpdateConfiguration]]]

DeleteIdentitySource(sources, in, fault) ==
    IF fault = "error" THEN [out |-> Nil, err |-> OtherAPIError, sources |-> sources]
    ELSE IF in.IdentitySourceId.nil \/ in.IdentitySourceId.v \notin DOMAIN sources
        THEN [out |-> Nil, err |-> ResourceNotFoundException, sources |-> sources]
    ELSE [out |-> Nil, err |-> NoError, sources |-> Without(sources, in.IdentitySourceId.v)]

(***************************************************************************)
(* verifiedpermissions identity source: finder and handlers.               *)
(***************************************************************************)
\* a finder that does not look at the output's IdentitySourceId
findIdentitySourceByIDUnchecked(sources, id, fault) ==
    LET in == [IdentitySourceId |-> Ptr(id)]
        r == GetIdentitySource(sources, in, fault)
        api == <<ApiCall("GetIdentitySource", in, r)>>
    IN IF IsResourceNotFound(r.err) THEN [out |-> Nil, err |-> NotFoundError(r.err), api |-> api]
       ELSE IF r.err # NoError THEN [out |-> Nil, err |-> r.err, api |-> api]
       ELSE IF r.out.nil THEN [out |-> Nil, err |-> EmptyResultError, api |-> api]
       ELSE [out |-> r.out, err |-> NoError, api |-> api]

findIdentitySourceByID(sources, id, fault) ==
    LET in == [IdentitySourceId |-> Ptr(id)]
        r == GetIdentitySource(sources, in, fault)
        api == <<ApiCall("GetIdentitySource", in, r)>>
    IN IF IsResourceNotFound(r.err) THEN [out |-> Nil, err |-> NotFoundError(r.err), api |-> api]
       ELSE IF r.err # NoError THEN [out |-> Nil, err |-> r.err, api |-> api]
       ELSE IF r.out.nil \/ r.out.v.IdentitySourceId.nil
           THEN [out |-> Nil, err |-> EmptyResultError, api |-> api]
       ELSE [out |-> r.out, err |-> NoError, api |-> api]

\* plan: configuration, policy_store_id, principal_entity_type
SourceCreateResp(sources, plan, newId, fault) ==
    LET c == IF plan.configuration.null THEN [val |-> Nil, panic |-> FALSE]
             ELSE expandIdentitySourceConfiguration(ElementsAs(plan.configuration))
        in == [PolicyStoreId |-> ValueStringPointer(plan.policy_store_id),
               PrincipalEntityType |-> IF plan.principal_entity_type.null THEN Nil
                                       ELSE Ptr(ValueString(plan.principal_entity_type)),
               Configuration |-> c.val]
        r == CreateIdentitySource(sources, in, newId, fault)
        api == <<ApiCall("CreateIdentitySource", in, r)>>
    IN IF c.panic THEN
           [state |-> Absent, sources |-> sources, api |-> <<>>, err |-> FALSE, panic |-> TRUE, find |-> NoFind]
       ELSE IF r.err # NoError THEN
           [state |-> Absent, sources |-> sources, api |-> api, err |-> TRUE, panic |-> FALSE, find |-> NoFind]
       ELSE
           [state |-> [configuration |-> plan.configuration,
                       id |-> StringToFramework(r.out.v.IdentitySourceId),
                       policy_store_id |-> StringToFramework(r.out.v.PolicyStoreId),
                       principal_entity_type |-> plan.principal_entity_type],
            sources |-> r.sources, api |-> api, err |-> FALSE, panic |-> FALSE, find |-> NoFind]

\* policy_store_id is assigned from output.IdentitySourceId.
SourceReadResp(sources, st, fault) ==
    LET f == findIdentitySourceByID(sources, ValueString(st.id), fault) IN
    IF NotFound(f.err) THEN
        [state |-> Absent, sources |-> sources, api |-> f.api, err |-> FALSE, panic |-> FALSE, find |-> f]
    ELSE IF f.err # NoError THEN
        [state |-> st, sources |-> sources, api |-> f.api, err |-> TRUE, panic |-> FALSE, find |-> f]
    ELSE LET c == flattenIdentitySourceConfiguration(f.out.v.Configuration) IN
         [state |-> [configuration |-> c.val,
                     id |-> StringToFramework(f.out.v.IdentitySourceId),
                     policy_store_id |-> StringToFramework(f.out.v.IdentitySourceId),
                     principal_entity_type |-> StringToFramework(f.out.v.PrincipalEntityType)],
          sources |-> sources, api |-> f.api, err |-> c.diags, panic |-> FALSE, find |-> f]

\* The request is built without IdentitySourceId.
SourceUpdateResp(sources, st, plan, fault) ==
    IF plan.configuration # st.configuration
       \/ plan.principal_entity_type # st.principal_entity_type
       \/ plan.policy_store_id # st.policy_store_id
    THEN
        LET c == IF plan.configuration.null THEN [val |-> Nil, panic |-> FALSE]
                 ELSE expandIdentitySourceUpdateConfiguration(ElementsAs(plan.configuration))
            in == [IdentitySourceId |-> Nil,
                   UpdateConfiguration |-> c.val,
                   PolicyStoreId |-> IF plan.policy_store_id.null THEN Nil
                                     ELSE ValueStringPointer(plan.policy_store_id),
                   PrincipalEntityType |-> IF plan.principal_entity_type.null THEN Nil
                                           ELSE ValueStringPointer(plan.principal_entity_type)]
            r == UpdateIdentitySource(sources, in, fault)
            api == <<ApiCall("UpdateIdentitySource", in, r)>>
        IN IF c.panic THEN
               [state |-> st, sources |-> sources, api |-> <<>>, err |-> FALSE, panic |-> TRUE, find |-> NoFind]
           ELSE IF r.err # NoError THEN
               [state |-> st, sources |-> sources, api |-> api, err |-> TRUE, panic |-> FALSE, find |-> NoFind]
           ELSE
               [state |-> plan, sources |-> r.sources, api |-> api, err |-> FALSE, panic |-> FALSE,
                find |-> NoFind]
    ELSE
        [state |-> plan, sources |-> sources, api |-> <<>>, err |-> FALSE, panic |-> FALSE, find |-> NoFind]

SourceDeleteResp(sources, st, fault) ==
    LET in == [IdentitySourceId |-> StringFromFramework(st.id)]
        r == DeleteIdentitySource(sources, in, fault)
        api == <<ApiCall("DeleteIdentitySource", in, r)>>
    IN IF IsResourceNotFound(r.err) THEN
           [state |-> Absent, sources |-> sources, api |-> api, err |-> FALSE, panic |-> FALSE, find |-> NoFind]
       ELSE IF r.err # NoError THEN
           [state |-> st, sources |-> sources, api |-> api, err |-> TRUE, panic |-> FALSE, find |-> NoFind]
       ELSE
           [state |-> Absent, sources |-> r.sources, api |-> api, err |-> FALSE, panic |-> FALSE,
            find |-> NoFind]

SourceImportState(id) ==
    [configuration |-> ListNull, id |-> StringValue(id),
     policy_store_id |-> StringNull, principal_entity_type |-> StringNull]

(***************************************************************************)
(* iot software package (plugin SDK v2: the state is a ResourceData d of   *)
(* Go strings, and a resource whose ID is "" is not in state).             *)
(***************************************************************************)
PackageArnOf(name) == <<"arn:iot:package/">> \o name

\* An empty PackageName does not pass the validation of the request.
GetPackage(packages, in, fault) ==
    IF fault = "error" \/ in.PackageName = <<>> THEN [out |-> Nil, err |-> OtherAPIError]
    ELSE IF in.PackageName \notin DOMAIN packages THEN [out |-> Nil, err |-> ResourceNotFoundException]
    ELSE IF fault = "empty" THEN [out |-> Nil, err |-> NoError]
    ELSE [out |-> Ptr([PackageName |-> in.PackageName,
                       Description |-> packages[in.PackageName].Description,
                       PackageArn |-> packages[in.PackageName].PackageArn]),
          err |-> NoError]

CreatePackage(packages, in, fault) ==
    IF fault = "error" \/ in.PackageName \in DOMAIN packages \/ in.PackageName = <<>>
        THEN [out |-> Nil, err |-> OtherAPIError, packages |-> packages]
    ELSE [out |-> Ptr([PackageName |-> in.PackageName, PackageArn |-> PackageArnOf(in.PackageName)]),
          err |-> NoError,
          packages |-> (in.PackageName :> [Description |-> in.Description,
                                           PackageArn |-> PackageArnOf(in.PackageName)]) @@ packages]

UpdatePackage(packages, in, fault) ==
    IF fault = "error" THEN [out |-> Nil, err |-> OtherAPIError, packages |-> packages]
    ELSE IF in.PackageName \notin DOMAIN packages
        THEN [out |-> Nil, err |-> ResourceNotFoundException, packages |-> packages]
    ELSE [out |-> Nil, err |-> NoError,
          packages |-> [packages EXCEPT ![in.PackageName].Description = in.Description]]

DeletePackage(packages, in, fault) ==
    IF fault = "error" THEN [out |-> Nil, err |-> OtherAPIError, packages |-> packages]
    ELSE IF in.PackageName \notin DOMAIN packages
        THEN [out |-> Nil, err |-> ResourceNotFoundException, packages |-> packages]
    ELSE [out |-> Nil, err |-> NoError, packages |-> Without(packages, in.PackageName)]

\* IoT policies are another collection of the same service.
GetPolicy(policies, in, fault) ==
    IF fault = "error" THEN [out |-> Nil, err |-> OtherAPIError]
    ELSE IF in.PolicyName \notin policies THEN [out |-> Nil, err |-> ResourceNotFoundException]
    ELSE [out |-> Ptr([PolicyName |-> in.PolicyName]), err |-> NoError]

\* a ResourceData as the SDK keeps it: without an ID it is not in state
Stored(d) == IF d.id = <<>> THEN Absent ELSE d

\* resourcePolicyRead, the Read of aws_iot_policy: GetPolicy by d.Id(); its
\* d.Set calls name attributes the software package does not have.
\* The result is [d, api, err].
resourcePolicyRead(policies, d, fault) ==
    LET in == [PolicyName |-> d.id]
        r == GetPolicy(policies, in, fault)
        api == <<ApiCall("GetPolicy", in, r)>>
    IN IF IsResourceNotFound(r.err) THEN [d |-> [d EXCEPT !.id = <<>>], api |-> api, err |-> FALSE]
       ELSE IF r.err # NoError THEN [d |-> d, api |-> api, err |-> TRUE]
       ELSE [d |-> d, api |-> api, err |-> FALSE]

\* d: the planned description and package_name, no ID yet
PackageCreateResp(rem, d, fault, readFault) ==
    LET in == [Description |-> d.description, PackageName |-> d.package_name]
        r == CreatePackage(rem.packages, in, fault)
        api == <<ApiCall("CreatePackage", in, r)>>
    IN IF r.err # NoError THEN
           [state |-> Stored(d), packages |-> rem.packages, api |-> api, err |-> TRUE, panic |-> FALSE,
            find |-> NoFind]
       ELSE LET d2 == [d EXCEPT !.id = r.out.v.PackageName, !.package_arn = r.out.v.PackageArn]
                rd == resourcePolicyRead(rem.policies, d2, readFault)
            IN [state |-> Stored(rd.d), packages |-> r.packages, api |-> api \o rd.api,
                err |-> rd.err, panic |-> FALSE, find |-> NoFind]

\* The package is looked up by d.Get("package_name").
PackageReadResp(rem, d, fault) ==
    LET in == [PackageName |-> d.package_name]
        r == GetPackage(rem.packages, in, fault)
        api == <<ApiCall("GetPackage", in, r)>>
        f == [out |-> r.out, err |-> r.err, api |-> api]
    IN IF IsResourceNotFound(r.err) THEN
           [state |-> Absent, packages |-> rem.packages, api |-> api, err |-> FALSE, panic |-> FALSE,
            find |-> f]
       ELSE IF r.err # NoError THEN
           [state |-> Stored(d), packages |-> rem.packages, api |-> api, err |-> TRUE, panic |-> FALSE,
            find |-> f]
       ELSE IF r.out.nil THEN
           [state |-> Stored(d), packages |-> rem.packages, api |-> api, err |-> FALSE, panic |-> TRUE,
            find |-> f]
       ELSE
           [state |-> Stored([d EXCEPT !.description = r.out.v.Description,
                                       !.package_name = r.out.v.PackageName,
                                       !.package_arn = r.out.v.PackageArn]),
            packages |-> rem.packages, api |-> api, err |-> FALSE, panic |-> FALSE, find |-> f]

\* an Update that calls UpdatePackage whatever has changed
PackageUpdateRespAlwaysCalls(rem, st, d, fault, readFault) ==
    LET in == [Description |-> d.description, PackageName |-> d.package_name]
        r == UpdatePackage(rem.packages, in, fault)
        api == <<ApiCall("UpdatePackage", in, r)>>
    IN IF r.err # NoError THEN
           [state |-> Stored(d), packages |-> rem.packages, api |-> api, err |-> TRUE, panic |-> FALSE,
            find |-> NoFind]
       ELSE LET rd == resourcePolicyRead(rem.policies, d, readFault) IN
            [state |-> Stored(rd.d), packages |-> r.packages, api |-> api \o rd.api,
             err |-> rd.err, panic |-> FALSE, find |-> NoFind]

\* d holds the planned values; HasChange compares them with the prior state
PackageUpdateResp(rem, st, d, fault, readFault) ==
    LET changed == d.description # st.description \/ d.package_name # st.package_name
        in == [Description |-> d.description, PackageName |-> d.package_name]
        r == IF changed THEN UpdatePackage(rem.packages, in, fault)
             ELSE [out |-> Nil, err |-> NoError, packages |-> rem.packages]
        api == IF changed THEN <<ApiCall("UpdatePackage", in, r)>> ELSE <<>>
    IN IF r.err # NoError THEN
           [state |-> Stored(d), packages |-> rem.packages, api |-> api, err |-> TRUE, panic |-> FALSE,
            find |-> NoFind]
       ELSE LET rd == resourcePolicyRead(rem.policies, d, readFault) IN
            [state |-> Stored(rd.d), packages |-> r.packages, api |-> api \o rd.api,
             err |-> rd.err, panic |-> FALSE, find |-> NoFind]

PackageDeleteResp(rem, d, fault) ==
    LET in == [PackageName |-> d.package_name]
        r == DeletePackage(rem.packages, in, fault)
        api == <<ApiCall("DeletePackage", in, r)>>
    IN IF IsResourceNotFound(r.err) THEN
           [state |-> Absent, packages |-> rem.packages, api |-> api, err |-> FALSE, panic |-> FALSE,
            find |-> NoFind]
       ELSE IF r.err # NoError THEN
           [state |-> Stored(d), packages |-> rem.packages, api |-> api, err |-> TRUE, panic |-> FALSE,
            find |-> NoFind]
       ELSE
           [state |-> Absent, packages |-> r.packages, api |-> api, err |-> FALSE, panic |-> FALSE,
            find |-> NoFind]

FindSoftwarePackageByName(packages, name, fault) ==
    LET in == [PackageName |-> name]
        r == GetPackage(packages, in, fault)
        api == <<ApiCall("GetPackage", in, r)>>
    IN IF IsResourceNotFound(r.err) THEN [out |-> Nil, err |-> NotFoundError(r.err), api |-> api]
       ELSE IF r.err # NoError THEN [out |-> Nil, err |-> r.err, api |-> api]
       ELSE IF r.out.nil THEN [out |-> Nil, err |-> EmptyResultError, api |-> api]
       ELSE [out |-> r.out, err |-> NoError, api |-> api]

\* schema.ImportStatePassthroughContext: the ID alone
PackageImportState(id) == [id |-> id, description |-> <<>>, package_name |-> <<>>, package_arn |-> <<>>]

(***************************************************************************)
(* The state machine.  The framework calls Create and ImportState when the *)
(* resource is not in state, and Read, Update and Delete when it is.  A    *)
(* behaviour manages one resource of one type; the types share nothing.    *)
(***************************************************************************)
ResourceTypes == {"grant", "method", "source", "package"}

NoOp == [op |-> "none", req |-> <<>>, api |-> <<>>, err |-> FALSE, panic |-> FALSE, find |-> NoFind]
NoHist == [id |-> Nil, state |-> Absent, deleted |-> FALSE]
NoFn == [name |-> "none"]

Op(name, req, r) ==
    [op |-> name, req |-> req, api |-> r.api, err |-> r.err, panic |-> r.panic, find |-> r.find]

FindOp(name, id, f) ==
    [op |-> name, req |-> [id |-> id], api |-> f.api, err |-> FALSE, panic |-> FALSE, find |-> f]

\* a handler that returned without an error diagnostic and without crashing
Succeeded(r) == ~r.err /\ ~r.panic

\* the handler's answer: the new state, the remote collection, the record
Respond(name, req, r, coll) ==
    /\ state' = r.state
    /\ remote' = [remote EXCEPT ![coll] = r[coll]]
    /\ lastOp' = Op(name, req, r)

HistCreate(r) ==
    IF Succeeded(r) /\ r.state # Absent
        THEN [id |-> Ptr(ValueString(r.state.id)), state |-> r.state, deleted |-> FALSE]
        ELSE hist

HistDelete(id, r) ==
    IF Succeeded(r) /\ ~hist.id.nil /\ hist.id.v = id THEN [hist EXCEPT !.deleted = TRUE] ELSE hist

Disappears(name, coll) ==
    /\ \E k \in DOMAIN remote[coll] : remote' = [remote EXCEPT ![coll] = Without(remote[coll], k)]
    /\ lastOp' = [NoOp EXCEPT !.op = name]
    /\ UNCHANGED <<rtype, state, hist, fn>>

(******************************* grant *************************************)
AppArns == {<<"arn:app1">>, <<"arn:app2", Comma, "x">>}
GrantTypes == {<<"authorization_code">>, <<"refresh_token">>}
ManagedGrantBlocks ==
    {AuthorizationCodeBlock(ListValue(<<StringValue(<<"uri1">>)>>)),
     JwtBearerBlock(SetValue({[authorized_audiences |-> ListValue(<<StringValue(<<"aud">>)>>),
                               trusted_token_issuer_arn |-> StringValue(<<"arn:tti">>)]})),
     RefreshTokenBlock}
GrantPlans ==
    [application_arn : {StringValue(a) : a \in AppArns},
     grant_type : {StringValue(t) : t \in GrantTypes},
     grant : ManagedGrantBlocks]
GrantImportIds ==
    {JoinParts(<<a, t>>, Comma) : a \in AppArns, t \in GrantTypes} \cup {<<"arn:app1">>}

GrantCreate ==
    /\ rtype = "grant" /\ state = Absent
    /\ \E plan \in GrantPlans, fault \in WriteFaults :
         LET r == GrantCreateResp(remote.grants, plan, fault) IN
         /\ Respond("GrantCreate", [plan |-> plan], r, "grants")
         /\ hist' = HistCreate(r)
    /\ UNCHANGED <<rtype, fn>>

GrantRead ==
    /\ rtype = "grant" /\ state # Absent
    /\ \E fault \in Faults :
         Respond("GrantRead", [state |-> state], GrantReadResp(remote.grants, state, fault), "grants")
    /\ UNCHANGED <<rtype, hist, fn>>

\* application_arn and grant_type require replacement, so a plan that reaches
\* Update differs from the state in the grant block alone.
GrantUpdate ==
    /\ rtype = "grant" /\ state # Absent
    /\ \E g \in ManagedGrantBlocks :
         LET plan == [state EXCEPT !.grant = g] IN
         /\ g # state.grant
         /\ Respond("GrantUpdate", [state |-> state, plan |-> plan],
                    GrantUpdateResp(remote.grants, state, plan), "grants")
    /\ UNCHANGED <<rtype, hist, fn>>

GrantDelete ==
    /\ rtype = "grant" /\ state # Absent
    /\ \E fault \in WriteFaults :
         LET r == GrantDeleteResp(remote.grants, state, fault) IN
         /\ Respond("GrantDelete", [state |-> state], r, "grants")
         /\ hist' = HistDelete(ValueString(state.id), r)
    /\ UNCHANGED <<rtype, fn>>

GrantImport ==
    /\ rtype = "grant" /\ state = Absent
    /\ \E id \in GrantImportIds :
         /\ state' = GrantImportState(id)
         /\ lastOp' = [NoOp EXCEPT !.op = "GrantImport", !.req = [id |-> id]]
    /\ UNCHANGED <<rtype, remote, hist, fn>>

\* the finder as the acceptance checks call it
GrantFind ==
    /\ rtype = "grant"
    /\ \E id \in GrantImportIds, fault \in Faults :
         lastOp' = FindOp("GrantFind", id, findApplicationGrantByID(remote.grants, id, fault))
    /\ UNCHANGED <<rtype, remote, state, hist, fn>>

\* the grant is removed on the vendor's side, outside Terraform
GrantDisappears == rtype = "grant" /\ Disappears("GrantDisappears", "grants")

(************************ authentication method ****************************)
MethodTypes == {<<"IAM">>}
ActorPolicies == {<<"{}">>, <<"{">>}
MethodBlocks ==
    {ListValue(<<[iam |-> ListValue(<<[actor_policy |-> StringValue(p)]>>)]>>) : p \in ActorPolicies}
    \cup {ListValue(<<[iam |-> ListNull]>>)}
MethodPlans ==
    [application_arn : {StringValue(a) : a \in AppArns},
     authentication_method_type : {StringValue(t) : t \in MethodTypes},
     authentication_method : MethodBlocks]
MethodImportIds ==
    {JoinParts(<<a, t>>, Comma) : a \in AppArns, t \in MethodTypes} \cup {<<"arn:app1">>}

MethodCreate ==
    /\ rtype = "method" /\ state = Absent
    /\ \E plan \in MethodPlans, fault \in WriteFaults, onNil \in NilExpansions :
         LET r == MethodCreateResp(remote.methods, plan, fault, onNil) IN
         /\ Respond("MethodCreate", [plan |-> plan], r, "methods")
         /\ hist' = HistCreate(r)
    /\ UNCHANGED <<rtype, fn>>

MethodRead ==
    /\ rtype = "method" /\ state # Absent
    /\ \E fault \in Faults, flattenFails \in BOOLEAN :
         Respond("MethodRead", [state |-> state],
                 MethodReadResp(remote.methods, state, fault, flattenFails), "methods")
    /\ UNCHANGED <<rtype, hist, fn>>

\* Every attribute requires replacement; Update is reached all the same
\* when the framework is asked to update in place.
MethodUpdate ==
    /\ rtype = "method" /\ state # Absent
    /\ \E b \in MethodBlocks :
         LET plan == [state EXCEPT !.authentication_method = b] IN
         /\ b # state.authentication_method
         /\ Respond("MethodUpdate", [state |-> state, plan |-> plan],
                    MethodUpdateResp(remote.methods, state, plan), "methods")
    /\ UNCHANGED <<rtype, hist, fn>>

MethodDelete ==
    /\ rtype = "method" /\ state # Absent
    /\ \E fault \in WriteFaults :
         LET r == MethodDeleteResp(remote.methods, state, fault) IN
         /\ Respond("MethodDelete", [state |-> state], r, "methods")
         /\ hist' = HistDelete(ValueString(state.id), r)
    /\ UNCHANGED <<rtype, fn>>

MethodImport ==
    /\ rtype = "method" /\ state = Absent
    /\ \E id \in MethodImportIds :
         /\ state' = MethodImportState(id)
         /\ lastOp' = [NoOp EXCEPT !.op = "MethodImport", !.req = [id |-> id]]
    /\ UNCHANGED <<rtype, remote, hist, fn>>

MethodFind ==
    /\ rtype = "method"
    /\ \E id \in MethodImportIds, fault \in Faults :
         lastOp' = FindOp("MethodFind", id,
                          findApplicationAuthenticationMethodByMethodTypeAndApplicationARN(
                              remote.methods, id, fault))
    /\ UNCHANGED <<rtype, remote, state, hist, fn>>

MethodDisappears == rtype = "method" /\ Disappears("MethodDisappears", "methods")

(*************************** identity source *******************************)
PolicyStoreIds == {<<"ps-1">>, <<"ps-2">>}
PrincipalEntityTypes == {StringNull, StringValue(<<"User">>)}
CognitoBlock(groups) ==
    ListValue(<<[cognito_user_pool_configuration |->
                   ListValue(<<[user_pool_arn |-> StringValue(<<"arn:pool">>),
                                client_ids |-> ListValue(<<StringValue(<<"client">>)>>),
                                group_configuration |-> groups]>>)]>>)
SourceConfigurations ==
    {CognitoBlock(ListNull),
     CognitoBlock(ListValue(<<[group_entity_type |-> StringValue(<<"Group">>)]>>)),
     ListValue(<<[cognito_user_pool_configuration |-> ListNull]>>)}
SourcePlans ==
    [policy_store_id : {StringValue(p) : p \in PolicyStoreIds},
     principal_entity_type : PrincipalEntityTypes,
     configuration : SourceConfigurations]
SourceReadFaults == Faults \cup {"noid"}

SourceCreate ==
    /\ rtype = "source" /\ state = Absent
    /\ \E plan \in SourcePlans, newId \in IdentitySourceIds, fault \in WriteFaults :
         LET r == SourceCreateResp(remote.sources, plan, newId, fault) IN
         /\ newId \notin DOMAIN remote.sources
         /\ Respond("SourceCreate", [plan |-> plan], r, "sources")
         /\ hist' = HistCreate(r)
    /\ UNCHANGED <<rtype, fn>>

SourceRead ==
    /\ rtype = "source" /\ state # Absent
    /\ \E fault \in SourceReadFaults :
         Respond("SourceRead", [state |-> state], SourceReadResp(remote.sources, state, fault), "sources")
    /\ UNCHANGED <<rtype, hist, fn>>

\* the plan keeps the ID of the state (UseStateForUnknown)
SourceUpdate ==
    /\ rtype = "source" /\ state # Absent
    /\ \E p \in SourcePlans, fault \in WriteFaults :
         LET plan == [configuration |-> p.configuration, id |-> state.id,
                      policy_store_id |-> p.policy_store_id,
                      principal_entity_type |-> p.principal_entity_type] IN
         Respond("SourceUpdate", [state |-> state, plan |-> plan],
                 SourceUpdateResp(remote.sources, state, plan, fault), "sources")
    /\ UNCHANGED <<rtype, hist, fn>>

SourceDelete ==
    /\ rtype = "source" /\ state # Absent
    /\ \E fault \in WriteFaults :
         LET r == SourceDeleteResp(remote.sources, state, fault) IN
         /\ Respond("SourceDelete", [state |-> state], r, "sources")
         /\ hist' = HistDelete(ValueString(state.id), r)
    /\ UNCHANGED <<rtype, fn>>

SourceImport ==
    /\ rtype = "source" /\ state = Absent
    /\ \E id \in IdentitySourceIds :
         /\ state' = SourceImportState(id)
         /\ lastOp' = [NoOp EXCEPT !.op = "SourceImport", !.req = [id |-> id]]
    /\ UNCHANGED <<rtype, remote, hist, fn>>

SourceFind ==
    /\ rtype = "source"
    /\ \E id \in IdentitySourceIds, fault \in SourceReadFaults :
         lastOp' = FindOp("SourceFind", id, findIdentitySourceByID(remote.sources, id, fault))
    /\ UNCHANGED <<rtype, remote, state, hist, fn>>

SourceDisappears == rtype = "source" /\ Disappears("SourceDisappears", "sources")

(*************************** software package ******************************)
PackageNames == {<<"pkg1">>, <<"pkg2">>}
Descriptions == {<<>>, <<"one">>, <<"two">>}
PackageConfigs ==
    {[id |-> <<>>, description |-> d, package_name |-> n, package_arn |-> <<>>] :
        d \in Descriptions, n \in PackageNames}

PackageCreate ==
    /\ rtype = "package" /\ state = Absent
    /\ \E d \in PackageConfigs, fault \in WriteFaults, readFault \in WriteFaults :
         Respond("PackageCreate", [plan |-> d], PackageCreateResp(remote, d, fault, readFault), "packages")
    /\ UNCHANGED <<rtype, hist, fn>>

PackageRead ==
    /\ rtype = "package" /\ state # Absent
    /\ \E fault \in Faults :
         Respond("PackageRead", [state |-> state], PackageReadResp(remote, state, fault), "packages")
    /\ UNCHANGED <<rtype, hist, fn>>

\* package_name forces a new resource; a plan that keeps the description
\* is a change of tags alone
PackageUpdate ==
    /\ rtype = "package" /\ state # Absent
    /\ \E desc \in Descriptions, fault \in WriteFaults, readFault \in WriteFaults :
         LET d == [state EXCEPT !.description = desc] IN
         Respond("PackageUpdate", [state |-> state, plan |-> d],
                 PackageUpdateResp(remote, state, d, fault, readFault), "packages")
    /\ UNCHANGED <<rtype, hist, fn>>

PackageDelete ==
    /\ rtype = "package" /\ state # Absent
    /\ \E fault \in WriteFaults :
         Respond("PackageDelete", [state |-> state], PackageDeleteResp(remote, state, fault), "packages")
    /\ UNCHANGED <<rtype, hist, fn>>

PackageImport ==
    /\ rtype = "package" /\ state = Absent
    /\ \E id \in PackageNames :
         /\ state' = PackageImportState(id)
         /\ lastOp' = [NoOp EXCEPT !.op = "PackageImport", !.req = [id |-> id]]
    /\ UNCHANGED <<rtype, remote, hist, fn>>

PackageFind ==
    /\ rtype = "package"
    /\ \E name \in PackageNames, fault \in Faults :
         lastOp' = FindOp("PackageFind", name, FindSoftwarePackageByName(remote.packages, name, fault))
    /\ UNCHANGED <<rtype, remote, state, hist, fn>>

PackageDisappears == rtype = "package" /\ Disappears("PackageDisappears", "packages")

\* the description is changed on the vendor's side, outside Terraform
PackageDrifts ==
    /\ rtype = "package"
    /\ \E n \in DOMAIN remote.packages, desc \in Descriptions :
         /\ desc # remote.packages[n].Description
         /\ remote' = [remote EXCEPT !.packages[n].Description = desc]
    /\ lastOp' = [NoOp EXCEPT !.op = "PackageDrifts"]
    /\ UNCHANGED <<rtype, state, hist, fn>>

(***************************************************************************)
Init ==
    /\ rtype \in ResourceTypes
    /\ \E pol \in SUBSET {<<"pkg1">>} :
         remote = [grants |-> <<>>, methods |-> <<>>, sources |-> <<>>, packages |-> <<>>,
                   policies |-> IF rtype = "package" THEN pol ELSE {}]
    /\ state = Absent
    /\ lastOp = NoOp
    /\ hist = NoHist
    /\ fn = NoFn

Next ==
    \/ GrantCreate \/ GrantRead \/ GrantUpdate \/ GrantDelete
    \/ GrantImport \/ GrantFind \/ GrantDisappears
    \/ MethodCreate \/ MethodRead \/ MethodUpdate \/ MethodDelete
    \/ MethodImport \/ MethodFind \/ MethodDisappears
    \/ SourceCreate \/ SourceRead \/ SourceUpdate \/ SourceDelete
    \/ SourceImport \/ SourceFind \/ SourceDisappears
    \/ PackageCreate \/ PackageRead \/ PackageUpdate \/ PackageDelete
    \/ PackageImport \/ PackageFind \/ PackageDisappears \/ PackageDrifts

Spec == Init /\ [][Next]_vars

(***************************************************************************)
(* wafregional: web ACL rules, actions and fields to match.                *)
(***************************************************************************)
\* A Go int of 64 bits, as its low 31 bits and the bits above them: the
\* number is hi * 2^31 + lo, with 0 <= lo < 2^31.
GoInt(hi, lo) == [hi |-> hi, lo |-> lo]

\* int32(n): the low 32 bits of n, read as a signed number
Int32(n) == IF n.hi % 2 = 0 THEN n.lo ELSE (n.lo - 2147483647) - 1

\* a string held in an interface{}, under its dynamic type
GoValue(type, s) == [go |-> type, v |-> s]

\* [val, panic]; m["type"].(string) panics on anything but a string
ExpandAction(l) ==
    IF Len(l) = 0 \/ l[1] = Nil THEN [val |-> Nil, panic |-> FALSE]
    ELSE IF "type" \notin DOMAIN l[1] \/ l[1].type.go # "string"
        THEN [val |-> Nil, panic |-> TRUE]
    ELSE [val |-> Ptr([Type |-> l[1].type.v]), panic |-> FALSE]

expandOverrideAction(l) ==
    IF Len(l) = 0 \/ l[1] = Nil THEN [val |-> Nil, panic |-> FALSE]
    ELSE IF "type" \notin DOMAIN l[1] \/ l[1].type.go # "string"
        THEN [val |-> Nil, panic |-> TRUE]
    ELSE [val |-> Ptr([Type |-> l[1].type.v]), panic |-> FALSE]

\* [val, panic]; a field the struct literal leaves out is nil
ExpandWebACLUpdate(updateAction, aclRule) ==
    LET group == aclRule.type.v = <<"GROUP">>
        a == IF group THEN expandOverrideAction(aclRule.override_action)
             ELSE ExpandAction(aclRule.action)
    IN [val |-> [Action |-> updateAction,
                 ActivatedRule |-> Ptr([Action |-> IF group THEN Nil ELSE a.val,
                                        OverrideAction |-> IF group THEN a.val ELSE Nil,
                                        Priority |-> Ptr(Int32(aclRule.priority)),
                                        RuleId |-> Ptr(aclRule.rule_id.v),
                                        Type |-> aclRule.type.v])],
        panic |-> a.panic]

\* FlattenAction that answers nil with an empty, non-nil list
FlattenActionNeverNil(n) ==
    IF n.nil THEN Slice(<<>>) ELSE Slice(<<[type |-> GoValue("string", n.v.Type)]>>)

FlattenAction(n) ==
    IF n.nil THEN NilSlice ELSE Slice(<<[type |-> GoValue("string", n.v.Type)]>>)

\* [val, panic]; r.OverrideAction.Type and r.Action.Type dereference the
\* pointer, and the action's type is stored under its enum type
FlattenWebACLRules(ts) ==
    LET group(r) == r.Type = <<"GROUP">>
        action(r) == IF group(r) THEN r.OverrideAction ELSE r.Action
        m(r) == IF group(r)
                THEN [override_action |->
                         <<[type |-> GoValue("WafOverrideActionType", r.OverrideAction.v.Type)]>>,
                      priority |-> r.Priority,
                      rule_id |-> GoValue("string", IF r.RuleId.nil THEN <<>> ELSE r.RuleId.v),
                      type |-> GoValue("string", r.Type)]
                ELSE [action |-> <<[type |-> GoValue("WafActionType", r.Action.v.Type)]>>,
                      priority |-> r.Priority,
                      rule_id |-> GoValue("string", IF r.RuleId.nil THEN <<>> ELSE r.RuleId.v),
                      type |-> GoValue("string", r.Type)]
    IN IF \E i \in DOMAIN ts : action(ts[i]).nil
       THEN [val |-> <<>>, panic |-> TRUE]
       ELSE [val |-> [i \in DOMAIN ts |-> m(ts[i])], panic |-> FALSE]

\* ExpandFieldToMatch that keeps an empty data string
ExpandFieldToMatchKeepsEmpty(d) ==
    [val |-> Ptr([Type |-> d.type.v,
                  Data |-> IF "data" \in DOMAIN d /\ d.data.go = "string"
                           THEN Ptr(d.data.v) ELSE Nil]),
     panic |-> d.type.go # "string"]

\* [val, panic]
ExpandFieldToMatch(d) ==
    [val |-> Ptr([Type |-> d.type.v,
                  Data |-> IF "data" \in DOMAIN d /\ d.data.go = "string" /\ d.data.v # <<>>
                           THEN Ptr(d.data.v) ELSE Nil]),
     panic |-> d.type.go # "string"]

\* [val, panic]; fm.Data dereferences fm
FlattenFieldToMatch(fm) ==
    IF fm.nil THEN [val |-> <<>>, panic |-> TRUE]
    ELSE [val |-> <<IF fm.v.Data.nil
                    THEN [type |-> GoValue("string", fm.v.Type)]
                    ELSE [data |-> GoValue("string", fm.v.Data.v),
                          type |-> GoValue("string", fm.v.Type)]>>,
          panic |-> FALSE]

(***************************************************************************)
(* Expand and flatten as functions, on the values the schemas accept.       *)
(***************************************************************************)
\* The `configuration` blocks with a cognito_user_pool_configuration:
\* user_pool_arn and client_ids are required, group_configuration optional.
ClientIds == {<<"client1">>, <<"client2">>}
GroupConfigurationBlocks ==
    {ListNull,
     ListValue(<<[group_entity_type |-> StringNull]>>),
     ListValue(<<[group_entity_type |-> StringValue(<<"Group">>)]>>)}
CognitoConfigurationBlocks ==
    {ListValue(<<[cognito_user_pool_configuration |->
                    ListValue(<<[user_pool_arn |-> StringValue(<<"arn:pool">>),
                                 client_ids |-> ids,
                                 group_configuration |-> groups]>>)]>>)
        : ids \in StringLists(ClientIds) \ {ListNull}, groups \in GroupConfigurationBlocks}

\* The `configuration` lists the validators accept: at most one block, with
\* at most one cognito_user_pool_configuration in it.
ConfigurationLists ==
    CognitoConfigurationBlocks
    \cup {ListValue(<<>>), ListValue(<<[cognito_user_pool_configuration |-> ListNull]>>)}

\* The `grant` lists the validators accept besides: SizeAtMost(1) and
\* ExactlyOneOf look at whether a sub-block list is null, not at its length,
\* so the one list that is set may have no elements.
EmptySelectedGrantBlocks ==
    {ListValue(<<[GrantObjectNull EXCEPT ![a] = ListValue(<<>>)]>>) : a \in DOMAIN GrantObjectNull}

\* The Grant values of the API: the four union members, and nil.
ApiGrants ==
    {GrantMember("GrantMemberAuthorizationCode", [RedirectUris |-> u]) :
        u \in {NilSlice} \cup {Slice(q) : q \in SeqsUpTo(Uris, MaxUris)}}
    \cup {GrantMember("GrantMemberJwtBearer", [AuthorizedTokenIssuers |-> i]) :
        i \in {NilSlice,
               Slice(<<[AuthorizedAudiences |-> NilSlice, TrustedTokenIssuerArn |-> Ptr(<<"arn:tti">>)]>>),
               Slice(<<[AuthorizedAudiences |-> Slice(<<<<"aud">>>>), TrustedTokenIssuerArn |-> Nil]>>)}}
    \cup {GrantMember("GrantMemberRefreshToken", EmptyObject),
          GrantMember("GrantMemberTokenExchange", EmptyObject),
          Nil}

\* The rule maps of the web ACL schema: type, rule_id and priority are
\* required, action and override_action are lists of at most one block. A
\* priority is any int: 1, and 2^31, which an int32 does not hold.
AclRules ==
    [type : {GoValue("string", t) : t \in {<<"REGULAR">>, <<"GROUP">>}},
     rule_id : {GoValue("string", <<"rule1">>)},
     priority : {GoInt(0, 1), GoInt(1, 0)},
     action : {<<>>, <<[type |-> GoValue("string", <<"BLOCK">>)]>>},
     override_action : {<<>>, <<[type |-> GoValue("string", <<"NONE">>)]>>}]

\* FieldToMatch values: Data is nil, a header name, or the empty string
FieldsToMatch ==
    {Ptr([Type |-> t, Data |-> d]) :
        t \in {<<"URI">>, <<"HEADER">>}, d \in {Nil, Ptr(<<"user-agent">>), Ptr(<<>>)}}

WafActions == {Nil} \cup {Ptr([Type |-> t]) : t \in {<<"ALLOW">>, <<"BLOCK">>, <<"COUNT">>}}

\* the lists d.Get hands to ExpandAction: no block, an empty block (nil), a block
ActionLists ==
    {<<>>, <<Nil>>} \cup {<<[type |-> GoValue("string", t)]>> : t \in {<<"ALLOW">>, <<"BLOCK">>}}

\* a function under evaluation: its argument, and nothing computed yet
FnInput(name, in, api) ==
    [name |-> name, stage |-> "input", in |-> in, api |-> api, out |-> ListNull, diags |-> FALSE]

RoundTripInit ==
    /\ rtype = "none"
    /\ remote = [grants |-> <<>>, methods |-> <<>>, sources |-> <<>>, packages |-> <<>>, policies |-> {}]
    /\ state = Absent
    /\ lastOp = NoOp
    /\ hist = NoHist
    /\ fn \in {FnInput("grant", g, Nil) : g \in GrantBlocks \cup EmptySelectedGrantBlocks}
              \cup {FnInput(n, c, Nil) : n \in {"configuration", "updateConfiguration"},
                                         c \in ConfigurationLists}
              \cup {FnInput("apiGrant", ListNull, g) : g \in ApiGrants}
              \cup {FnInput("method", m, Nil) : m \in MethodBlocks}
              \cup {FnInput("aclRules", [updateAction |-> u, rules |-> rs], Nil) :
                        u \in {<<"INSERT">>, <<"DELETE">>}, rs \in SeqsUpTo(AclRules, MaxRules)}
              \cup {FnInput("fieldToMatch", fm, fm) : fm \in FieldsToMatch}
              \cup {FnInput("wafAction", a, a) : a \in WafActions}
              \cup {FnInput("actionList", l, Nil) : l \in ActionLists}

GrantExpand ==
    /\ fn.name = "grant" /\ fn.stage = "input"
    /\ LET e == expandGrant(ElementsAs(fn.in)) IN
       fn' = [fn EXCEPT !.stage = IF e.panic THEN "panicked" ELSE "expanded", !.api = e.val]
    /\ UNCHANGED <<rtype, remote, state, lastOp, hist>>

GrantFlatten ==
    /\ \/ fn.name = "grant" /\ fn.stage = "expanded"
       \/ fn.name = "apiGrant" /\ fn.stage = "input"
    /\ fn' = [fn EXCEPT !.stage = "flattened", !.out = flattenGrant(fn.api)]
    /\ UNCHANGED <<rtype, remote, state, lastOp, hist>>

ConfigurationExpand ==
    /\ fn.name \in {"configuration", "updateConfiguration"} /\ fn.stage = "input"
    /\ LET e == IF fn.name = "configuration"
                THEN expandIdentitySourceConfiguration(ElementsAs(fn.in))
                ELSE expandIdentitySourceUpdateConfiguration(ElementsAs(fn.in)) IN
       fn' = [fn EXCEPT !.stage = IF e.panic THEN "panicked" ELSE "expanded", !.api = e.val]
    /\ UNCHANGED <<rtype, remote, state, lastOp, hist>>

\* the service answers with the ConfigurationDetail of what it was given
ConfigurationFlatten ==
    /\ fn.name = "configuration" /\ fn.stage = "expanded"
    /\ LET f == flattenIdentitySourceConfiguration(ConfigurationDetailOf(fn.api)) IN
       fn' = [fn EXCEPT !.stage = "flattened", !.out = f.val, !.diags = f.diags]
    /\ UNCHANGED <<rtype, remote, state, lastOp, hist>>

\* authenticationMethod.Expand on the one authentication_method block
MethodExpand ==
    /\ fn.name = "method" /\ fn.stage = "input"
    /\ \E onNil \in NilExpansions :
         LET e == authenticationMethodExpand(ElementsAs(fn.in)[1], onNil) IN
         fn' = [name |-> fn.name, stage |-> "expanded", in |-> fn.in, api |-> e.val,
                out |-> fn.out, diags |-> e.diags, onNil |-> onNil]
    /\ UNCHANGED <<rtype, remote, state, lastOp, hist>>

\* ExpandWebACLUpdate on each rule of a list, as the update of a web ACL does
WebACLUpdateExpand ==
    /\ fn.name = "aclRules" /\ fn.stage = "input"
    /\ LET e == [i \in DOMAIN fn.in.rules |-> ExpandWebACLUpdate(fn.in.updateAction, fn.in.rules[i])] IN
       fn' = [fn EXCEPT !.stage = IF \E i \in DOMAIN e : e[i].panic THEN "panicked" ELSE "expanded",
                        !.api = [i \in DOMAIN e |-> e[i].val]]
    /\ UNCHANGED <<rtype, remote, state, lastOp, hist>>

\* FlattenWebACLRules on the activated rules of the updates
WebACLRulesFlatten ==
    /\ fn.name = "aclRules" /\ fn.stage = "expanded"
    /\ LET f == FlattenWebACLRules([i \in DOMAIN fn.api |-> fn.api[i].ActivatedRule.v]) IN
       fn' = [fn EXCEPT !.stage = IF f.panic THEN "panicked" ELSE "flattened", !.out = f.val]
    /\ UNCHANGED <<rtype, remote, state, lastOp, hist>>

FieldToMatchFlatten ==
    /\ fn.name = "fieldToMatch" /\ fn.stage = "input"
    /\ LET f == FlattenFieldToMatch(fn.in) IN
       fn' = [fn EXCEPT !.stage = IF f.panic THEN "panicked" ELSE "flattened", !.out = f.val]
    /\ UNCHANGED <<rtype, remote, state, lastOp, hist>>

\* ExpandFieldToMatch on the one map FlattenFieldToMatch returned
FieldToMatchExpand ==
    /\ fn.name = "fieldToMatch" /\ fn.stage = "flattened"
    /\ LET e == ExpandFieldToMatch(fn.out[1]) IN
       fn' = [fn EXCEPT !.stage = IF e.panic THEN "panicked" ELSE "expanded", !.api = e.val]
    /\ UNCHANGED <<rtype, remote, state, lastOp, hist>>

ActionFlatten ==
    /\ fn.name = "wafAction" /\ fn.stage = "input"
    /\ fn' = [fn EXCEPT !.stage = "flattened", !.out = FlattenAction(fn.in)]
    /\ UNCHANGED <<rtype, remote, state, lastOp, hist>>

\* ExpandAction on a list of the configuration, or on what FlattenAction returned
ActionExpand ==
    /\ \/ fn.name = "actionList" /\ fn.stage = "input"
       \/ fn.name = "wafAction" /\ fn.stage = "flattened"
    /\ LET e == ExpandAction(IF fn.name = "actionList" THEN fn.in ELSE fn.out.elems) IN
       fn' = [fn EXCEPT !.stage = IF e.panic THEN "panicked" ELSE "expanded", !.api = e.val]
    /\ UNCHANGED <<rtype, remote, state, lastOp, hist>>

RoundTripNext ==
    \/ GrantExpand \/ GrantFlatten \/ ConfigurationExpand \/ ConfigurationFlatten
    \/ MethodExpand
    \/ WebACLUpdateExpand \/ WebACLRulesFlatten
    \/ FieldToMatchFlatten \/ FieldToMatchExpand
    \/ ActionFlatten \/ ActionExpand

SpecRoundTrip == RoundTripInit /\ [][RoundTripNext]_vars

(***************************************************************************)
(* Properties.                                                             *)
(***************************************************************************)
ReadOps == {"GrantRead", "MethodRead", "SourceRead", "PackageRead"}
DeleteOps == {"GrantDelete", "MethodDelete", "SourceDelete", "PackageDelete"}
UpdateNoOps == {"GrantUpdate", "MethodUpdate"}
FinderOps == {"GrantRead", "GrantFind", "MethodRead", "MethodFind", "SourceRead", "SourceFind",
              "PackageFind"}

CommaFree(str) == \A i \in 1..Len(str) : str[i] # Comma

\* the pair (ARN, type) of a grant or authentication method state
ArnOf(st) == ValueString(st.application_arn)
TypeOf(st) == IF rtype = "grant" THEN ValueString(st.grant_type)
              ELSE ValueString(st.authentication_method_type)
QueryType(in) == IF rtype = "grant" THEN in.GrantType ELSE in.AuthenticationMethodType

\* the ID a Read or a finder call was given
IdOf(op) == IF "id" \in DOMAIN op.req THEN op.req.id ELSE ValueString(op.req.state.id)

\* C1: flattenGrant applied to expandGrant of a schema-accepted grant block
\* returns the block: the same sub-block set, with the same contents.
C1_GrantRoundTrip ==
    (fn.name = "grant" /\ fn.in \in GrantBlocks /\ fn.stage = "flattened") => fn.out = fn.in

C3_ImportReadReproducesCreate ==
    ( /\ lastOp.op = "GrantRead"
      /\ ~hist.id.nil
      /\ lastOp.req.state = GrantImportState(hist.id.v)
      /\ lastOp.find.err = NoError
      /\ Succeeded(lastOp) )
    => state = hist.state

\* C4: after a Read whose lookup finds the identity source, the state Read
\* writes holds the remote ID, the ID of the source's policy store and the
\* remote principal entity type.
C4_SourceReadAttributes ==
    (lastOp.op = "SourceRead" /\ lastOp.find.err = NoError)
    => LET id == IdOf(lastOp) IN
       /\ state # Absent
       /\ state.id = StringValue(id)
       /\ state.policy_store_id = StringToFramework(remote.sources[id].PolicyStoreId)
       /\ state.principal_entity_type = StringToFramework(remote.sources[id].PrincipalEntityType)

\* C5: a Delete whose API call answers ResourceNotFound reports no error;
\* a Delete whose call fails with any other error reports an error.
C5_DeleteMapsNotFound ==
    (lastOp.op \in DeleteOps /\ lastOp.api # <<>>) =>
        /\ lastOp.api[1].err = ResourceNotFoundException => ~lastOp.err
        /\ lastOp.api[1].err = OtherAPIError => lastOp.err

C5_Witness ==
    /\ lastOp.op \in DeleteOps
    /\ lastOp.api # <<>> /\ lastOp.api[1].err = ResourceNotFoundException
    /\ ~lastOp.err /\ state = Absent

\* what the finder of the managed type returns for id when the call itself
\* does not fail
FinderAnswer(id) ==
    IF rtype = "grant" THEN findApplicationGrantByID(remote.grants, id, "none")
    ELSE IF rtype = "method" THEN
        findApplicationAuthenticationMethodByMethodTypeAndApplicationARN(remote.methods, id, "none")
    ELSE findIdentitySourceByID(remote.sources, id, "none")

\* C6: once a created grant, authentication method or identity source has
\* been deleted successfully, the finder given the ID that Create stored
\* returns a not-found error, and a Read of that ID removes the resource
\* (for the ssoadmin resources: with an application ARN that has no comma).
C6_DestroyedIsGone ==
    ( /\ rtype \in {"grant", "method", "source"} /\ hist.deleted
      /\ rtype = "source" \/ CommaFree(ArnOf(hist.state)) ) =>
        /\ FinderAnswer(hist.id.v).err = NotFoundError(ResourceNotFoundException)
        /\ ( /\ lastOp.op \in ReadOps
             /\ IdOf(lastOp) = hist.id.v
             /\ lastOp.api # <<>> /\ lastOp.api[1].err # OtherAPIError )
           => state = Absent

\* the four outcomes of a finder, by the answer of its one API call
FinderOutcomeOfCall ==
    /\ Len(lastOp.api) = 1
    /\ LET c == lastOp.api[1]
           f == lastOp.find
           noOutput == c.out.nil \/ (rtype = "source" /\ c.out.v.IdentitySourceId.nil)
       IN \/ c.err = ResourceNotFoundException /\ f.out = Nil /\ f.err = NotFoundError(c.err)
          \/ c.err = OtherAPIError /\ f.out = Nil /\ f.err = c.err
          \/ c.err = NoError /\ noOutput /\ f.out = Nil /\ f.err = EmptyResultError
          \/ c.err = NoError /\ ~noOutput /\ f.err = NoError /\ ~f.out.nil
             /\ f.out = IF rtype = "method" THEN Ptr(c.out.v.AuthenticationMethod) ELSE c.out

C8_UpdateIsNoOp ==
    [][lastOp'.op \in UpdateNoOps =>
          /\ remote' = remote
          /\ state' = state
          /\ lastOp'.api = <<>>
          /\ ~lastOp'.err]_vars

C8_Witness ==
    /\ lastOp.op \in UpdateNoOps
    /\ lastOp.req.plan # lastOp.req.state
    /\ state = lastOp.req.state

\* C9: for a non-empty, comma-free ARN A and type T, a successful Create
\* stores the ID A "," T, and the finder given that ID queries the remote
\* for ApplicationArn A and type T.
C9_IdJoinsAndSplits ==
    /\ ( /\ lastOp.op \in {"GrantCreate", "MethodCreate"}
         /\ Succeeded(lastOp) /\ state # Absent
         /\ CommaFree(ArnOf(state)) /\ CommaFree(TypeOf(state)) )
       => ValueString(state.id) = ArnOf(state) \o <<Comma>> \o TypeOf(state)
    /\ ( /\ lastOp.op \in {"GrantRead", "GrantFind", "MethodRead", "MethodFind"}
         /\ ~hist.id.nil /\ IdOf(lastOp) = hist.id.v
         /\ CommaFree(ArnOf(hist.state)) /\ CommaFree(TypeOf(hist.state)) )
       => /\ Len(lastOp.api) = 1
          /\ lastOp.api[1].in.ApplicationArn = ArnOf(hist.state)
          /\ QueryType(lastOp.api[1].in) = TypeOf(hist.state)

C9_Witness ==
    /\ lastOp.op = "GrantFind"
    /\ ~hist.id.nil /\ IdOf(lastOp) = hist.id.v
    /\ CommaFree(ArnOf(hist.state))
    /\ Len(lastOp.api) = 1 /\ lastOp.api[1].in.ApplicationArn = ArnOf(hist.state)

\* C10: a successful Create or Update of a software package ends with
\* GetPackage for that package, and leaves the state with the remote
\* description, name and ARN and with the package name as ID.
C10_PackageReadBack ==
    (lastOp.op \in {"PackageCreate", "PackageUpdate"} /\ Succeeded(lastOp)) =>
        LET name == lastOp.req.plan.package_name
            last == lastOp.api[Len(lastOp.api)]
        IN /\ lastOp.api # <<>>
           /\ last.call = "GetPackage" /\ last.in.PackageName = name
           /\ state # Absent
           /\ state.id = name /\ state.package_name = name
           /\ name \in DOMAIN remote.packages
           /\ state.description = remote.packages[name].Description
           /\ state.package_arn = remote.packages[name].PackageArn

CreateOps == {"GrantCreate", "MethodCreate", "SourceCreate"}

\* C11: a Create of a grant, authentication method or identity source whose
\* put/create call fails reports an error and leaves no resource in state;
\* an identity source Update whose UpdateIdentitySource call fails reports
\* an error and leaves the prior state; state changes only after a call
\* that succeeded.
C11_FailedCallWritesNoState ==
    /\ lastOp.op \in CreateOps =>
          /\ (lastOp.api # <<>> /\ lastOp.api[1].err # NoError) => (lastOp.err /\ state = Absent)
          /\ state # Absent => (lastOp.api # <<>> /\ lastOp.api[1].err = NoError)
    /\ lastOp.op = "SourceUpdate" =>
          /\ (lastOp.api # <<>> /\ lastOp.api[1].err # NoError)
                => (lastOp.err /\ state = lastOp.req.state)
          /\ state # lastOp.req.state => (lastOp.api # <<>> /\ lastOp.api[1].err = NoError)

C11_Witness ==
    /\ lastOp.op \in CreateOps
    /\ lastOp.api # <<>> /\ lastOp.api[1].err = OtherAPIError
    /\ lastOp.err /\ state = Absent

\* C12: for a configuration block with a cognito_user_pool_configuration,
\* flattenIdentitySourceConfiguration of the remote configuration that
\* expandIdentitySourceConfiguration produced gives the block back, with
\* every attribute of its declared type and without an error diagnostic.
C12_ConfigurationRoundTrip ==
    (fn.name = "configuration" /\ fn.in \in CognitoConfigurationBlocks /\ fn.stage = "flattened")
    => (fn.out = fn.in /\ ~fn.diags)

\* the attribute of the grant object that answers a union member
AttributeOfMember ==
    [GrantMemberAuthorizationCode |-> "authorization_code", GrantMemberJwtBearer |-> "jwt_bearer",
     GrantMemberRefreshToken |-> "refresh_token", GrantMemberTokenExchange |-> "token_exchange"]

\* C13: flattenGrant of a non-nil Grant is a list of one object in which the
\* attribute of the Grant's union member is non-null and the other three
\* are null; flattenGrant of a nil Grant is a null list.
C13_FlattenGrantOneOf ==
    (fn.name = "apiGrant" /\ fn.stage = "flattened") =>
        IF fn.api.nil THEN fn.out = ListNull
        ELSE /\ ~fn.out.null /\ Len(fn.out.elems) = 1
             /\ \A a \in DOMAIN fn.out.elems[1] :
                   fn.out.elems[1][a].null <=> a # AttributeOfMember[fn.api.member]

\* C14: after an Update of a grant whose planned grant block differs from
\* the one in state (application_arn and grant_type unchanged), the state
\* equals the plan and the remote grant is the expansion of the planned
\* block.
C14_GrantUpdateApplied ==
    (lastOp.op = "GrantUpdate" /\ Succeeded(lastOp)) =>
        LET plan == lastOp.req.plan
            key == <<ValueString(plan.application_arn), ValueString(plan.grant_type)>>
        IN /\ state = plan
           /\ key \in DOMAIN remote.grants
           /\ remote.grants[key] = expandGrant(ElementsAs(plan.grant)).val

\* C15: expandGrant returns, without a nil dereference, for every grant list
\* the validators accept, the selected sub-block list being empty included;
\* a union member it returns carries its value.
C15_ExpandGrantReturns ==
    (fn.name = "grant" /\ fn.stage # "input") =>
        /\ fn.stage # "panicked"
        /\ ~fn.api.nil => "Value" \in DOMAIN fn.api

\* C16: expandIdentitySourceConfiguration and
\* expandIdentitySourceUpdateConfiguration return, without a nil
\* dereference, for every configuration list the validators accept, a block
\* without cognito_user_pool_configuration included, and return nil for the
\* empty list.
C16_ExpandConfigurationReturns ==
    (fn.name \in {"configuration", "updateConfiguration"} /\ fn.stage # "input") =>
        /\ fn.stage # "panicked"
        /\ fn.in = ListValue(<<>>) => fn.api = Nil

\* C17: the request of an UpdateIdentitySource call made by Update names the
\* identity source by the ID in state and carries the planned
\* policy_store_id, the planned principal_entity_type when it is not null,
\* and the configuration expanded from the plan.
C17_UpdateRequest ==
    (lastOp.op = "SourceUpdate" /\ lastOp.api # <<>>) =>
        LET in == lastOp.api[1].in
            plan == lastOp.req.plan
        IN /\ lastOp.api[1].call = "UpdateIdentitySource"
           /\ in.IdentitySourceId = Ptr(ValueString(lastOp.req.state.id))
           /\ in.PolicyStoreId = Ptr(ValueString(plan.policy_store_id))
           /\ ~plan.principal_entity_type.null
                 => in.PrincipalEntityType = Ptr(ValueString(plan.principal_entity_type))
           /\ in.UpdateConfiguration =
                 expandIdentitySourceUpdateConfiguration(ElementsAs(plan.configuration)).val

\* whether Update compares plan and state as different
SourcePlanDiffers(op) ==
    \/ op.req.plan.configuration # op.req.state.configuration
    \/ op.req.plan.principal_entity_type # op.req.state.principal_entity_type
    \/ op.req.plan.policy_store_id # op.req.state.policy_store_id

\* C18: Update of an identity source calls UpdateIdentitySource exactly when
\* configuration, principal_entity_type or policy_store_id differ between
\* plan and state, makes no call otherwise, and without an error leaves the
\* state equal to the plan.
C18_UpdateCallsIffChanged ==
    lastOp.op = "SourceUpdate" =>
        /\ (lastOp.api # <<>> /\ lastOp.api[1].call = "UpdateIdentitySource") <=> SourcePlanDiffers(lastOp)
        /\ ~SourcePlanDiffers(lastOp) => lastOp.api = <<>>
        /\ Succeeded(lastOp) => state = lastOp.req.plan

\* C19: a Read of a software package that was imported by ID (the state
\* holds the ID alone) asks the remote for the package named by the ID and,
\* when it succeeds, leaves package_name equal to the ID and description
\* and package_arn equal to the remote values.
C19_ImportedPackageRead ==
    \A id \in PackageNames :
        (lastOp.op = "PackageRead" /\ lastOp.req.state = PackageImportState(id)) =>
            /\ lastOp.api # <<>>
            /\ lastOp.api[1].call = "GetPackage" /\ lastOp.api[1].in.PackageName = id
            /\ (Succeeded(lastOp) /\ id \in DOMAIN remote.packages) =>
                  /\ state # Absent
                  /\ state.package_name = id
                  /\ state.description = remote.packages[id].Description
                  /\ state.package_arn = remote.packages[id].PackageArn

\* C20: Update of a software package calls UpdatePackage exactly when the
\* description or the package name changed (a change of tags alone makes no
\* call), and when UpdatePackage fails it reports an error and makes no
\* read-back.
C20_UpdatePackageIffChanged ==
    lastOp.op = "PackageUpdate" =>
        LET changed == \/ lastOp.req.plan.description # lastOp.req.state.description
                       \/ lastOp.req.plan.package_name # lastOp.req.state.package_name
            called == \E i \in 1..Len(lastOp.api) : lastOp.api[i].call = "UpdatePackage"
        IN /\ called <=> changed
           /\ (called /\ lastOp.api[1].err # NoError) => (lastOp.err /\ Len(lastOp.api) = 1)

C20_Witness ==
    /\ lastOp.op = "PackageUpdate"
    /\ lastOp.req.plan.description # lastOp.req.state.description
    /\ Len(lastOp.api) = 1 /\ lastOp.api[1].call = "UpdatePackage"
    /\ lastOp.api[1].err # NoError /\ lastOp.err
(* C21: authenticationMethod.Expand returns the IAM union member carrying  *)
(* what the iam block expanded to exactly when the iam block is not null   *)
(* and its expansion gave no error diagnostic; a null iam block gives nil  *)
(* and no diagnostic; a non-nil result never comes with error diagnostics. *)
C21_MethodExpand ==
    (fn.name = "method" /\ fn.stage = "expanded") =>
        LET m == ElementsAs(fn.in)[1]
            e == iamListExpand(m.iam, fn.onNil)
            expands == ~m.iam.null /\ ~e.diags
            member == [nil |-> FALSE, member |-> "AuthenticationMethodMemberIam", Value |-> e.val]
        IN /\ (fn.api = member) <=> expands
           /\ expands \/ fn.api = Nil
           /\ m.iam.null => (fn.api = Nil /\ ~fn.diags)
           /\ ~(fn.api # Nil /\ fn.diags)

C21_Witness ==
    /\ fn.name = "method" /\ fn.stage = "expanded"
    /\ fn.api # Nil /\ fn.api.Value.ActorPolicy = Ptr(<<"{}">>)

(* C22: a Create of an authentication method whose actor_policy is not     *)
(* JSON ends with an error diagnostic and without a                         *)
(* PutApplicationAuthenticationMethod call, and iam.Expand does not answer *)
(* the failed conversion with a nil policy and no diagnostic.              *)
C22_CreateRejectsInvalidPolicy ==
    (/\ lastOp.op = "MethodCreate"
     /\ ~ElementsAs(lastOp.req.plan.authentication_method)[1].iam.null) =>
        LET m == ElementsAs(ElementsAs(lastOp.req.plan.authentication_method)[1].iam)[1]
            e == iamExpand(m)
        IN SmithyDocumentFromString(ValueString(m.actor_policy)).err =>
              /\ lastOp.err
              /\ lastOp.api = <<>>
              /\ ~(e.val = Nil /\ ~e.diags)

\* the int32 p is the number the Go int n holds
SameNumber(n, p) ==
    \/ n.hi = 0 /\ p = n.lo
    \/ n.hi = -1 /\ p < 0 /\ n.lo = (p + 2147483647) + 1

(* C23: the WebACLUpdate that ExpandWebACLUpdate builds has the update     *)
(* action it was given, and an ActivatedRule with the priority, rule_id    *)
(* and type of the rule map; a GROUP rule carries the expanded             *)
(* override_action and no Action, every other rule the expanded action and *)
(* no OverrideAction, and never both.                                      *)
C23_WebACLUpdate ==
    (fn.name = "aclRules" /\ fn.stage # "input") =>
        \A i \in DOMAIN fn.in.rules :
            LET r == fn.in.rules[i]
                u == fn.api[i]
                a == u.ActivatedRule.v
            IN /\ u.Action = fn.in.updateAction
               /\ ~a.Priority.nil /\ SameNumber(r.priority, a.Priority.v)
               /\ a.RuleId = Ptr(r.rule_id.v)
               /\ a.Type = r.type.v
               /\ IF r.type.v = <<"GROUP">>
                  THEN a.OverrideAction = expandOverrideAction(r.override_action).val /\ a.Action = Nil
                  ELSE a.Action = ExpandAction(r.action).val /\ a.OverrideAction = Nil
               /\ a.Action = Nil \/ a.OverrideAction = Nil

(* C24: FlattenWebACLRules on the activated rules that ExpandWebACLUpdate  *)
(* made of a list of rule maps returns, without a nil dereference, one map *)
(* per rule and in the same order, each with the type, rule_id, priority   *)
(* and action or override_action type of its rule.                         *)
C24_RulesRoundTrip ==
    (fn.name = "aclRules" /\ fn.stage \notin {"input", "expanded"}) =>
        /\ fn.stage = "flattened"
        /\ Len(fn.out) = Len(fn.in.rules)
        /\ \A i \in DOMAIN fn.in.rules :
              LET r == fn.in.rules[i]
                  m == fn.out[i]
              IN /\ m.type.v = r.type.v
                 /\ m.rule_id.v = r.rule_id.v
                 /\ ~m.priority.nil /\ SameNumber(r.priority, m.priority.v)
                 /\ IF r.type.v = <<"GROUP">>
                    THEN /\ "override_action" \in DOMAIN m
                         /\ r.override_action # <<>> =>
                               m.override_action[1].type.v = r.override_action[1].type.v
                    ELSE /\ "action" \in DOMAIN m
                         /\ r.action # <<>> => m.action[1].type.v = r.action[1].type.v

(* C25, as stated: ExpandFieldToMatch of the map that FlattenFieldToMatch  *)
(* returned for fm equals fm, and the map has a data key exactly when      *)
(* fm.Data is not nil.                                                     *)
C25_FieldToMatchRoundTrip_AsStated ==
    (fn.name = "fieldToMatch" /\ fn.stage # "input") =>
        /\ fn.stage # "panicked"
        /\ ("data" \in DOMAIN fn.out[1]) <=> ~fn.in.v.Data.nil
        /\ fn.stage = "expanded" => fn.api = fn.in

(* C25: the map that FlattenFieldToMatch returns for fm has a data key     *)
(* exactly when fm.Data is not nil, and ExpandFieldToMatch of that map has *)
(* the Type of fm and the Data of fm, except that a Data pointing to the   *)
(* empty string comes back as nil.                                         *)
C25_FieldToMatchRoundTrip ==
    (fn.name = "fieldToMatch" /\ fn.stage # "input") =>
        /\ fn.stage # "panicked"
        /\ ("data" \in DOMAIN fn.out[1]) <=> ~fn.in.v.Data.nil
        /\ fn.stage = "expanded" =>
              /\ fn.api.v.Type = fn.in.v.Type
              /\ fn.api.v.Data = IF fn.in.v.Data = Ptr(<<>>) THEN Nil ELSE fn.in.v.Data

C25_Witness ==
    /\ fn.name = "fieldToMatch" /\ fn.stage = "expanded"
    /\ fn.in.v.Data = Ptr(<<"user-agent">>) /\ fn.api = fn.in

(* C26: ExpandAction returns nil exactly when its list is empty or starts  *)
(* with nil; FlattenAction returns nil exactly when its argument is nil;   *)
(* ExpandAction of the list FlattenAction made of a non-nil action returns *)
(* an action of the same Type.                                             *)
C26_ActionRoundTrip ==
    /\ (fn.name = "actionList" /\ fn.stage # "input") =>
          /\ fn.stage = "expanded"
          /\ fn.api = Nil <=> (Len(fn.in) = 0 \/ fn.in[1] = Nil)
    /\ (fn.name = "wafAction" /\ fn.stage # "input") =>
          /\ fn.out.nil <=> fn.in.nil
          /\ fn.stage # "panicked"
          /\ (fn.stage = "expanded" /\ ~fn.in.nil) =>
                (fn.api # Nil /\ fn.api.v.Type = fn.in.v.Type)

C26_Witness ==
    /\ fn.name = "wafAction" /\ fn.stage = "expanded"
    /\ ~fn.in.nil /\ fn.api = Ptr([Type |-> <<"BLOCK">>])

====
